---- MODULE Spec2Model ----
(***************************************************************************)
(* Content-decay analysis engine of the Search Console extension.          *)
(*                                                                         *)
(* Two analyzer variants live in the repository:                           *)
(*   - the classification ("revival") analyzer: src/unnamed/part_001       *)
(*   - the weighted-score analyzer:                                        *)
(*       src/content-decay-extension/src/utils/decay-analyzer.js           *)
(* together with the two comparators (getPagePerformanceComparison) of     *)
(* src/unnamed/part_001 and src/content-decay-extension/src/utils/api.js.  *)
(*                                                                         *)
(* Numbers: clicks, impressions and positions are integers.  Every         *)
(* quotient the code computes in floating point (ctr, percent changes,     *)
(* daily rates, weighted scores) is an exact rational [num, den], den > 0, *)
(* kept in lowest terms.  Values rounded by Math.round(x * 10) / 10 are    *)
(* stored in tenths (an integer t stands for t / 10).                      *)
(***************************************************************************)
EXTENDS Integers, Sequences, FiniteSets, TLC

VARIABLES
    page,            \* SpecDiag: the PageComparison handed to the diagnoser
    diagLocals,      \* SpecDiag: locals of diagnoseDecay at its return
    decay,           \* SpecDiag: result of diagnoseDecay(page)
    basicDecay,      \* SpecDiag: result of calculateDecayMetrics(current, previous)
    currentPeriod,   \* rows of the current period, in API order
    previousPeriod,  \* rows of the previous period
    recentPeriod,    \* rows of the recent (7 day) period
    options,         \* options of getPagePerformanceComparison
    comparison,      \* output of getPagePerformanceComparison (part_001)
    basicComparison, \* output of getPagePerformanceComparison (api.js)
    analyzed,        \* output of analyzeContentDecay (part_001), .pages
    basicAnalyzed,   \* output of analyzeContentDecay (decay-analyzer.js)
    summary,         \* calculateSiteSummary(analyzed)
    basicSummary,    \* calculateSiteSummary(basicAnalyzed)
    pc,              \* position of the analysis run
    historicalData,  \* SpecVelocity: daily { date, clicks } objects of one page
    velocity,        \* SpecVelocity: result of calculateDecayVelocity
    csvPages,        \* SpecCsv: <<analyzer variant, its analyzed pages>>, for exportToCSV
    csvText,         \* SpecCsv: the string exportToCSV returned
    csvReader,       \* SpecCsv: state of the reader of the file
    csvParsed,       \* SpecCsv: rows the reader parsed back
    authStorage,     \* SpecFetch: chrome.storage.local, keys accessToken and expiresAt
    serverRows,      \* SpecFetch: number of rows the API holds for each period
    fetchVariant,    \* SpecFetch: which getPagePerformanceComparison runs
    fpc,             \* SpecFetch: position of getPagePerformanceComparison
    periodIndex,     \* SpecFetch: the period being fetched
    startRow,        \* SpecFetch: queryAllSearchAnalytics' startRow
    allRows,         \* SpecFetch: queryAllSearchAnalytics' allRows, as row ranges
    fetched,         \* SpecFetch: the periods fetched so far
    networkLog,      \* SpecFetch: requests sent, responses received, delays slept
    fetchError,      \* SpecFetch: message of the Error thrown, or null
    fetchComparison, \* SpecFetch: the periods the comparison list is built from
    cacheStorage,    \* SpecWorker: chrome.storage.local, the analysis_<site> keys
    now,             \* SpecWorker: Date.now(), in milliseconds
    ticks,           \* SpecWorker: number of clock advances so far
    runs,            \* SpecWorker: the message handlers under way
    currentSiteUrl,  \* SpecPopup: the site the popup shows
    currentAnalysis, \* SpecPopup: { summary, pages } the popup renders, or null
    screen,          \* SpecPopup: the screen showScreen made visible
    calls            \* SpecPopup: the calls of analyzeSite, in the order made

vars == <<page, diagLocals, decay, basicDecay, currentPeriod, previousPeriod,
          recentPeriod, options, comparison, basicComparison, analyzed,
          basicAnalyzed, summary, basicSummary, pc, historicalData, velocity,
          csvPages, csvText, csvReader, csvParsed,
          authStorage, serverRows, fetchVariant, fpc, periodIndex, startRow,
          allRows, fetched, networkLog, fetchError, fetchComparison,
          cacheStorage, now, ticks, runs,
          currentSiteUrl, currentAnalysis, screen, calls>>

diagVars == <<page, diagLocals, decay, basicDecay>>
runVars == <<currentPeriod, previousPeriod, recentPeriod, options, comparison,
             basicComparison, analyzed, basicAnalyzed, summary, basicSummary>>
velVars == <<historicalData, velocity>>
csvVars == <<csvPages, csvText, csvReader, csvParsed>>
fetchVars == <<authStorage, serverRows, fetchVariant, fpc, periodIndex, startRow,
               allRows, fetched, networkLog, fetchError, fetchComparison>>
popupVars == <<currentSiteUrl, currentAnalysis, screen, calls>>
workerVars == <<cacheStorage, now, ticks, runs, popupVars>>

\* the variables of the other subsystems, which the analysis run leaves alone
extVars == <<velVars, csvVars, fetchVars, workerVars>>

\* JavaScript null (also: a result not computed yet); a record, so that it
\* compares with the objects it stands in for
null == [null |-> TRUE]

(***************************************************************************)
(* Exact arithmetic standing for the JavaScript number operations          *)
(***************************************************************************)
Abs(x) == IF x < 0 THEN -x ELSE x

RECURSIVE GCD(_, _)
GCD(a, b) == IF b = 0 THEN a ELSE GCD(b, a % b)

\* the number n / d, d > 0, in lowest terms
Q(n, d) ==
    LET g == GCD(Abs(n), d)
    IN  [num |-> n \div g, den |-> d \div g]

QInt(n) == [num |-> n, den |-> 1]
QAdd(a, b) == Q(a.num * b.den + b.num * a.den, a.den * b.den)
QSub(a, b) == Q(a.num * b.den - b.num * a.den, a.den * b.den)
QMul(a, b) == Q(a.num * b.num, a.den * b.den)
QLess(a, b) == a.num * b.den < b.num * a.den
QAbs(a) == [num |-> Abs(a.num), den |-> a.den]

\* Math.round(a): the nearest integer, halves rounded towards +infinity
MathRound(a) == (2 * a.num + a.den) \div (2 * a.den)

\* one decimal by truncation instead of Math.round
Round1_truncate(a) ==
    LET x == QMul(a, QInt(10))
    IN  IF x.num >= 0 THEN x.num \div x.den ELSE -((-x.num) \div x.den)

\* Math.round(a * 10) / 10, in tenths
Round1(a) == MathRound(QMul(a, QInt(10)))

\* a JavaScript array of strings joined by nothing: membership in a sequence
Includes(seq, x) == \E i \in 1..Len(seq) : seq[i] = x

(***************************************************************************)
(* Classification analyzer (the "Revival Engine"), src/unnamed/part_001    *)
(***************************************************************************)

\* calculatePercentChange without the current > 0 test of the zero case
calculatePercentChange_zeroIsZero(current, previous) ==
    IF previous.num = 0
    THEN QInt(0)
    ELSE QMul(Q(current.num * previous.den - previous.num * current.den,
                current.den * previous.num),
              QInt(100))

\* calculatePercentChange(current, previous) on rationals
calculatePercentChange(current, previous) ==
    IF previous.num = 0
    THEN (IF current.num > 0 THEN QInt(100) ELSE QInt(0))
    ELSE QMul(Q(current.num * previous.den - previous.num * current.den,
                current.den * previous.num),
              QInt(100))

\* the deltas with the position difference taken the other way round
StandardDeltas_positionFlipped(current, previous) ==
    [clicks      |-> calculatePercentChange(QInt(current.clicks), QInt(previous.clicks)),
     impressions |-> calculatePercentChange(QInt(current.impressions), QInt(previous.impressions)),
     ctr         |-> calculatePercentChange(current.ctr, previous.ctr),
     position    |-> QInt(current.position - previous.position)]

\* 1. Calculate Standard Deltas
StandardDeltas(current, previous) ==
    [clicks      |-> calculatePercentChange(QInt(current.clicks), QInt(previous.clicks)),
     impressions |-> calculatePercentChange(QInt(current.impressions), QInt(previous.impressions)),
     ctr         |-> calculatePercentChange(current.ctr, previous.ctr),
     position    |-> QInt(previous.position - current.position)]

\* 2. Revival Score: idealCtr = 0.20 = 1/5
\*    Math.max(0, Math.round(current.impressions * idealCtr - current.clicks))
idealCtr == Q(1, 5)

\* the revival score without Math.max(0, ...)
revivalScoreOf_noClamp(current) ==
    MathRound(QSub(QMul(QInt(current.impressions), idealCtr), QInt(current.clicks)))

revivalScoreOf(current) ==
    LET potentialClicks == QMul(QInt(current.impressions), idealCtr)
        r == MathRound(QSub(potentialClicks, QInt(current.clicks)))
    IN  IF r > 0 THEN r ELSE 0

\* the velocity check without the if (recent) guard: a missing recent
\* snapshot read as zero clicks
isCliffOf_noGuard(current, recent) ==
    LET dailyClicksMonth == Q(current.clicks, 30)
        dailyClicksWeek == Q(IF recent # null THEN recent.clicks ELSE 0, 7)
        velocityChange == calculatePercentChange(dailyClicksWeek, dailyClicksMonth)
    IN  QLess(velocityChange, QInt(-30))

\* 3. Velocity Checks: isCliff
isCliffOf(current, recent) ==
    IF recent # null
    THEN LET dailyClicksMonth == Q(current.clicks, 30)
             dailyClicksWeek == Q(recent.clicks, 7)
             velocityChange == calculatePercentChange(dailyClicksWeek, dailyClicksMonth)
         IN  QLess(velocityChange, QInt(-30))
    ELSE FALSE

\* the chain with the plunge test moved to the front
decayClassOf_plungeFirst(current, changes, isCliff) ==
    IF isCliff THEN "plunge"
    ELSE IF current.clicks = 0 /\ current.impressions < 100 THEN "ghost_town"
    ELSE IF current.impressions > 1000 /\ QLess(current.ctr, Q(1, 2)) THEN "zombie"
    ELSE IF QLess(changes.clicks, QInt(-10)) /\ QLess(QInt(-2), changes.position) THEN "bleeder"
    ELSE IF QLess(changes.position, QInt(-3)) THEN "rank_rot"
    ELSE IF QLess(QInt(-5), changes.clicks) THEN "healthy"
    ELSE "decaying"

\* 4. Taxonomy Classification: the if / else-if chain
decayClassOf(current, changes, isCliff) ==
    IF current.clicks = 0 /\ current.impressions < 100 THEN "ghost_town"
    ELSE IF current.impressions > 1000 /\ QLess(current.ctr, Q(1, 2)) THEN "zombie"
    ELSE IF isCliff THEN "plunge"
    ELSE IF QLess(changes.clicks, QInt(-10)) /\ QLess(QInt(-2), changes.position) THEN "bleeder"
    ELSE IF QLess(changes.position, QInt(-3)) THEN "rank_rot"
    ELSE IF QLess(QInt(-5), changes.clicks) THEN "healthy"
    ELSE "decaying"

\* signals.push(...) of the branch taken
signalsOf(decayClass) ==
    IF decayClass = "zombie" THEN <<"low_ctr_high_imp">>
    ELSE IF decayClass = "plunge" THEN <<"velocity_cliff">>
    ELSE IF decayClass = "bleeder" THEN <<"slow_bleed">>
    ELSE <<>>

\* symptoms.push(...) of the branch taken (the emoji prefix left out)
symptomsOf(decayClass) ==
    IF decayClass = "ghost_town" THEN <<"Ghost Town">>
    ELSE IF decayClass = "zombie" THEN <<"Zombie Page">>
    ELSE IF decayClass = "plunge" THEN <<"The Plunge">>
    ELSE IF decayClass = "bleeder" THEN <<"The Bleeder">>
    ELSE IF decayClass = "rank_rot" THEN <<"Rank Rot">>
    ELSE IF decayClass = "decaying" THEN <<"Decay Detected">>
    ELSE <<>>

\* the severity table with the entry of the fallback class forgotten
severityMap_noDecaying ==
    [c \in {"plunge", "zombie", "rank_rot", "bleeder", "ghost_town", "healthy"} |->
        CASE c = "plunge"     -> "critical"
          [] c = "zombie"     -> "warning"
          [] c = "rank_rot"   -> "critical"
          [] c = "bleeder"    -> "warning"
          [] c = "ghost_town" -> "monitoring"
          [] c = "healthy"    -> "healthy"]

\* Final Severity Mapping
severityMap ==
    [c \in {"plunge", "zombie", "rank_rot", "bleeder", "ghost_town", "decaying", "healthy"} |->
        CASE c = "plunge"     -> "critical"
          [] c = "zombie"     -> "warning"
          [] c = "rank_rot"   -> "critical"
          [] c = "bleeder"    -> "warning"
          [] c = "ghost_town" -> "monitoring"
          [] c = "decaying"   -> "monitoring"
          [] c = "healthy"    -> "healthy"]

\* obj[key] of a JavaScript object: undefined for a missing key
Lookup(obj, key) == IF key \in DOMAIN obj THEN obj[key] ELSE "undefined"

\* getRevivalRecommendations without the fallback entry
getRevivalRecommendations_noFallback(decayClass, signals, revivalScore) ==
    IF decayClass = "zombie"
    THEN <<"Revive this Zombie: It has visibility but no clicks. Fix the Title & Meta Description ASAP.",
           "Opportunity: Optimizing this could yield ~" \o ToString(revivalScore) \o " more clicks.">>
    ELSE IF decayClass = "plunge"
    THEN <<"Stop the Plunge: Technical audit required. Check robots.txt and recent code pushes.">>
    ELSE IF decayClass = "bleeder"
    THEN <<"Stem the Bleed: Your content is aging. Add a \"Last Updated\" section and fresh stats.">>
    ELSE IF decayClass = "rank_rot"
    THEN <<"Fight Back: Competitors overtook you. Expand word count and add unique video/images.">>
    ELSE IF decayClass = "ghost_town"
    THEN <<"Exorcise: This page is dead. Consider deleting or 301 redirecting to a healthy page.">>
    ELSE <<>>

\* getRevivalRecommendations(decayClass, signals, revivalScore)
getRevivalRecommendations(decayClass, signals, revivalScore) ==
    LET recs ==
            IF decayClass = "zombie"
            THEN <<"Revive this Zombie: It has visibility but no clicks. Fix the Title & Meta Description ASAP.",
                   "Opportunity: Optimizing this could yield ~" \o ToString(revivalScore) \o " more clicks.">>
            ELSE IF decayClass = "plunge"
            THEN <<"Stop the Plunge: Technical audit required. Check robots.txt and recent code pushes.">>
            ELSE IF decayClass = "bleeder"
            THEN <<"Stem the Bleed: Your content is aging. Add a \"Last Updated\" section and fresh stats.">>
            ELSE IF decayClass = "rank_rot"
            THEN <<"Fight Back: Competitors overtook you. Expand word count and add unique video/images.">>
            ELSE IF decayClass = "ghost_town"
            THEN <<"Exorcise: This page is dead. Consider deleting or 301 redirecting to a healthy page.">>
            ELSE <<>>
    IN  IF Len(recs) = 0 THEN <<"Monitor performance.">> ELSE recs

\* the locals of diagnoseDecay(page, weights) when it returns
diagnoseLocals(p) ==
    [changes |-> StandardDeltas(p.current, p.previous),
     isCliff |-> isCliffOf(p.current, p.recent)]

\* diagnoseDecay(page, weights): the returned object
diagnoseDecay(p) ==
    LET changes == StandardDeltas(p.current, p.previous)
        revivalScore == revivalScoreOf(p.current)
        isCliff == isCliffOf(p.current, p.recent)
        decayClass == decayClassOf(p.current, changes, isCliff)
        signals == signalsOf(decayClass)
    IN  [score          |-> revivalScore,
         decayClass     |-> decayClass,
         severity       |-> Lookup(severityMap, decayClass),
         changes        |-> [clicks      |-> Round1(changes.clicks),
                             impressions |-> Round1(changes.impressions),
                             ctr         |-> Round1(changes.ctr),
                             position    |-> Round1(changes.position)],
         signals        |-> signals,
         symptoms       |-> symptomsOf(decayClass),
         recommendation |-> getRevivalRecommendations(decayClass, signals, revivalScore)]

\* analyzeContentDecay(comparisonResult, options).pages of part_001:
\* filter, map, then Array.prototype.sort (stable) by b.decay.score - a.decay.score
RECURSIVE InsertByScore_tiesFirst(_, _)
InsertByScore_tiesFirst(sorted, p) ==
    IF sorted = <<>> THEN <<p>>
    ELSE IF Head(sorted).decay.score > p.decay.score
         THEN <<Head(sorted)>> \o InsertByScore_tiesFirst(Tail(sorted), p)
         ELSE <<p>> \o sorted

RECURSIVE InsertByScore(_, _)
InsertByScore(sorted, p) ==
    IF sorted = <<>> THEN <<p>>
    ELSE IF Head(sorted).decay.score >= p.decay.score
         THEN <<Head(sorted)>> \o InsertByScore(Tail(sorted), p)
         ELSE <<p>> \o sorted

RECURSIVE SortByScoreDesc(_)
SortByScoreDesc(pages) ==
    IF pages = <<>> THEN <<>>
    ELSE InsertByScore(SortByScoreDesc(SubSeq(pages, 1, Len(pages) - 1)), pages[Len(pages)])

\* .filter(page => page.previous !== null)
HasPrevious(p) == p.previous # null

\* { ...page, decay: d }
WithDecay(p, d) == [f \in DOMAIN p \cup {"decay"} |-> IF f = "decay" THEN d ELSE p[f]]

RECURSIVE MapDiagnose(_)
MapDiagnose(pages) ==
    IF pages = <<>> THEN <<>>
    ELSE <<WithDecay(Head(pages), diagnoseDecay(Head(pages)))>> \o MapDiagnose(Tail(pages))

analyzeContentDecay(pages) ==
    SortByScoreDesc(MapDiagnose(SelectSeq(pages, HasPrevious)))

\* both diagnosers start by reading current.clicks: on a record that passed
\* the filter and has no current snapshot that read raises a TypeError, which
\* nothing in analyzeContentDecay catches
ThrowsTypeError(pages) ==
    \E i \in 1..Len(pages) : HasPrevious(pages[i]) /\ pages[i].current = null

(***************************************************************************)
(* Weighted-score analyzer,                                                *)
(* src/content-decay-extension/src/utils/decay-analyzer.js                 *)
(***************************************************************************)

\* the weighted decay score before rounding
weightedScore(changes) ==
    LET s0 == QInt(0)
        s1 == IF QLess(changes.clicks, QInt(0))
              THEN QAdd(s0, QMul(QAbs(changes.clicks), Q(2, 5))) ELSE s0
        s2 == IF QLess(changes.impressions, QInt(0))
              THEN QAdd(s1, QMul(QAbs(changes.impressions), Q(3, 10))) ELSE s1
        s3 == IF QLess(changes.ctr, QInt(0))
              THEN QAdd(s2, QMul(QAbs(changes.ctr), Q(1, 5))) ELSE s2
        s4 == IF QLess(changes.position, QInt(0))
              THEN QAdd(s3, QMul(QAbs(changes.position), QInt(2))) ELSE s3
    IN  s4

\* Determine severity
severityOfScore(score) ==
    IF QLess(QInt(30), score) THEN "critical"
    ELSE IF QLess(QInt(15), score) THEN "warning"
    ELSE IF QLess(QInt(5), score) THEN "monitoring"
    ELSE "healthy"

\* Determine primary decay signals
basicSignalsOf(changes) ==
    (IF QLess(changes.impressions, QInt(-20)) THEN <<"visibility_drop">> ELSE <<>>)
    \o (IF QLess(changes.clicks, QInt(-30)) THEN <<"traffic_loss">> ELSE <<>>)
    \o (IF QLess(changes.ctr, QInt(-15)) THEN <<"ctr_decline">> ELSE <<>>)
    \o (IF QLess(changes.position, QInt(-3)) THEN <<"ranking_drop">> ELSE <<>>)

\* getRecommendation(severity, signals)
getRecommendation(severity, signals) ==
    LET r1 == IF Includes(signals, "visibility_drop")
              THEN <<"Review indexation status in Search Console",
                     "Check for technical SEO issues (robots.txt, canonical tags)",
                     "Verify no recent site structure changes affected this URL">>
              ELSE <<>>
        r2 == IF Includes(signals, "ctr_decline")
              THEN <<"Update title tag with compelling, current hooks",
                     "Refresh meta description with clear value proposition",
                     "Add current year to title if applicable",
                     "Review competing SERP results for better positioning ideas">>
              ELSE <<>>
        r3 == IF Includes(signals, "ranking_drop")
              THEN <<"Analyze top-ranking competitors for this topic",
                     "Update content with fresh information and statistics",
                     "Add comprehensive coverage of related subtopics",
                     "Improve content structure with better headings and formatting">>
              ELSE <<>>
        r4 == IF Includes(signals, "traffic_loss")
              THEN <<"Perform comprehensive content refresh",
                     "Add internal links from high-authority pages",
                     "Consider content consolidation if multiple similar pages exist",
                     "Update with expert quotes or original research">>
              ELSE <<>>
        recommendations == r1 \o r2 \o r3 \o r4
    IN  CASE severity = "critical" ->
               <<"Schedule immediate review - significant traffic loss detected",
                 "URGENT: High-priority content refresh needed">> \o recommendations
          [] severity = "warning" ->
               <<"Monitor closely - decay pattern detected",
                 "Schedule content refresh within 2-4 weeks">> \o recommendations
          [] severity = "monitoring" ->
               <<"Consider minor updates and optimization",
                 "Keep watching - early signs of potential decay">> \o recommendations
          [] OTHER ->
               recommendations \o <<"Content is performing well - maintain current optimization">>

\* calculateDecayMetrics(current, previous)
calculateDecayMetrics(current, previous) ==
    LET changes == StandardDeltas(current, previous)
        score == weightedScore(changes)
        severity == severityOfScore(score)
        signals == basicSignalsOf(changes)
    IN  [score          |-> Round1(score),
         severity       |-> severity,
         changes        |-> [clicks      |-> Round1(changes.clicks),
                             impressions |-> Round1(changes.impressions),
                             ctr         |-> Round1(changes.ctr),
                             position    |-> Round1(changes.position)],
         signals        |-> signals,
         recommendation |-> getRecommendation(severity, signals)]

RECURSIVE MapDecayMetrics(_)
MapDecayMetrics(pages) ==
    IF pages = <<>> THEN <<>>
    ELSE <<WithDecay(Head(pages), calculateDecayMetrics(Head(pages).current, Head(pages).previous))>>
         \o MapDecayMetrics(Tail(pages))

\* analyzeContentDecay(pageComparisons) of decay-analyzer.js
basicAnalyzeContentDecay(pages) ==
    SortByScoreDesc(MapDecayMetrics(SelectSeq(pages, HasPrevious)))

(***************************************************************************)
(* Site aggregator: calculateSiteSummary (identical in both variants but   *)
(* for topDecayingPages, which only decay-analyzer.js returns)             *)
(***************************************************************************)
\* analyzedPages.filter(p => p.decay.severity === sev)
BySeverity(analyzedPages, sev) ==
    LET Is(p) == p.decay.severity = sev
    IN  SelectSeq(analyzedPages, Is)

\* the grouping with critical pages also put into the warning bucket
groupByDecaySeverity_overlap(analyzedPages) ==
    [critical   |-> BySeverity(analyzedPages, "critical"),
     warning    |-> BySeverity(analyzedPages, "critical")
                       \o BySeverity(analyzedPages, "warning"),
     monitoring |-> BySeverity(analyzedPages, "monitoring"),
     healthy    |-> BySeverity(analyzedPages, "healthy")]

groupByDecaySeverity(analyzedPages) ==
    [critical   |-> BySeverity(analyzedPages, "critical"),
     warning    |-> BySeverity(analyzedPages, "warning"),
     monitoring |-> BySeverity(analyzedPages, "monitoring"),
     healthy    |-> BySeverity(analyzedPages, "healthy")]

\* analyzedPages.reduce((sum, p) => sum + p.decay.score, 0)
RECURSIVE SumScore(_)
SumScore(analyzedPages) ==
    IF analyzedPages = <<>> THEN 0
    ELSE Head(analyzedPages).decay.score + SumScore(Tail(analyzedPages))

\* arr.slice(0, n)
Slice0(arr, n) == SubSeq(arr, 1, IF Len(arr) < n THEN Len(arr) ELSE n)

\* the health score taken as the share of flagged pages
healthScoreOf_flagged(healthyAndMonitoring, totalPages) ==
    MathRound(QMul(Q(totalPages - healthyAndMonitoring, totalPages), QInt(100)))

\* healthScore: Math.round((healthyAndMonitoring / totalPages) * 100)
healthScoreOf(healthyAndMonitoring, totalPages) ==
    MathRound(QMul(Q(healthyAndMonitoring, totalPages), QInt(100)))

\* calculateSiteSummary(analyzedPages); scoreDen is 1 when decay.score is an
\* integer (part_001) and 10 when it is kept in tenths (decay-analyzer.js);
\* avgDecayScore is in tenths
SiteSummary(analyzedPages, scoreDen) ==
    IF Len(analyzedPages) = 0
    THEN [totalPages |-> 0, criticalCount |-> 0, warningCount |-> 0,
          monitoringCount |-> 0, healthyCount |-> 0, healthScore |-> 100,
          avgDecayScore |-> 0]
    ELSE LET grouped == groupByDecaySeverity(analyzedPages)
             totalPages == Len(analyzedPages)
             healthyAndMonitoring == Len(grouped.healthy) + Len(grouped.monitoring)
         IN  [totalPages      |-> totalPages,
              criticalCount   |-> Len(grouped.critical),
              warningCount    |-> Len(grouped.warning),
              monitoringCount |-> Len(grouped.monitoring),
              healthyCount    |-> Len(grouped.healthy),
              healthScore     |-> healthScoreOf(healthyAndMonitoring, totalPages),
              avgDecayScore   |-> Round1(Q(SumScore(analyzedPages), scoreDen * totalPages))]

\* part_001
calculateSiteSummary(analyzedPages) == SiteSummary(analyzedPages, 1)

\* decay-analyzer.js: the same summary plus topDecayingPages
basicCalculateSiteSummary(analyzedPages) ==
    LET s == SiteSummary(analyzedPages, 10)
        grouped == groupByDecaySeverity(analyzedPages)
        top == IF Len(analyzedPages) = 0 THEN <<>>
               ELSE Slice0(Slice0(grouped.critical, 10) \o Slice0(grouped.warning, 10), 15)
    IN  [f \in DOMAIN s \cup {"topDecayingPages"} |->
            IF f = "topDecayingPages" THEN top ELSE s[f]]

(***************************************************************************)
(* Comparator: getPagePerformanceComparison, the part after the fetches    *)
(***************************************************************************)
\* new Map(period.map(row => [row.keys[0], row])): a later row replaces an
\* earlier one with the same key
MapHas(period, pageUrl) == \E i \in 1..Len(period) : period[i].keys[1] = pageUrl

MapGet(period, pageUrl) ==
    LET last == CHOOSE i \in 1..Len(period) :
                    /\ period[i].keys[1] = pageUrl
                    /\ \A j \in (i + 1)..Len(period) : period[j].keys[1] # pageUrl
    IN  period[last]

\* { clicks: row.clicks, impressions: row.impressions, ctr: row.ctr, position: row.position }
Metrics(row) ==
    [clicks |-> row.clicks, impressions |-> row.impressions,
     ctr |-> row.ctr, position |-> row.position]

\* const { minImpressions = 100 } = options
minImpressionsOf(opts) ==
    IF "minImpressions" \in DOMAIN opts THEN opts.minImpressions ELSE 100

\* (options.minClicks || 0)
minClicksOf(opts) ==
    IF "minClicks" \in DOMAIN opts THEN opts.minClicks ELSE 0

\* the filter with the impressions threshold only
rowQualifies_impressionsOnly(row, opts) ==
    row.impressions >= minImpressionsOf(opts)

\* part_001: row => row.impressions >= minImpressions && row.clicks >= (options.minClicks || 0)
rowQualifies(row, opts) ==
    row.impressions >= minImpressionsOf(opts) /\ row.clicks >= minClicksOf(opts)

\* api.js: row => row.impressions >= minImpressions
basicRowQualifies(row, opts) ==
    row.impressions >= minImpressionsOf(opts)

\* the record with a missing previous period filled with zero metrics
comparisonRecord_zeroPrevious(current, previousPeriodRows, recentPeriodRows) ==
    LET pageUrl == current.keys[1]
        hasPrevious == MapHas(previousPeriodRows, pageUrl)
        hasRecent == MapHas(recentPeriodRows, pageUrl)
    IN  [page     |-> pageUrl,
         current  |-> Metrics(current),
         previous |-> IF hasPrevious THEN Metrics(MapGet(previousPeriodRows, pageUrl))
                      ELSE [clicks |-> 0, impressions |-> 0, ctr |-> QInt(0), position |-> 0],
         recent   |-> IF hasRecent THEN Metrics(MapGet(recentPeriodRows, pageUrl)) ELSE null,
         isNew    |-> ~hasPrevious]

\* part_001: the record built for one current-period row
comparisonRecord(current, previousPeriodRows, recentPeriodRows) ==
    LET pageUrl == current.keys[1]
        hasPrevious == MapHas(previousPeriodRows, pageUrl)
        hasRecent == MapHas(recentPeriodRows, pageUrl)
    IN  [page     |-> pageUrl,
         current  |-> Metrics(current),
         previous |-> IF hasPrevious THEN Metrics(MapGet(previousPeriodRows, pageUrl)) ELSE null,
         recent   |-> IF hasRecent THEN Metrics(MapGet(recentPeriodRows, pageUrl)) ELSE null,
         isNew    |-> ~hasPrevious]

\* api.js: the record built for one current-period row (no recent period)
basicComparisonRecord(current, previousPeriodRows) ==
    LET pageUrl == current.keys[1]
        hasPrevious == MapHas(previousPeriodRows, pageUrl)
    IN  [page     |-> pageUrl,
         current  |-> Metrics(current),
         previous |-> IF hasPrevious THEN Metrics(MapGet(previousPeriodRows, pageUrl)) ELSE null,
         isNew    |-> ~hasPrevious]

\* part_001: currentPeriod.filter(...).map(...)
RECURSIVE getPagePerformanceComparison(_, _, _, _)
getPagePerformanceComparison(cur, prev, rec, opts) ==
    IF cur = <<>> THEN <<>>
    ELSE (IF rowQualifies(Head(cur), opts)
          THEN <<comparisonRecord(Head(cur), prev, rec)>> ELSE <<>>)
         \o getPagePerformanceComparison(Tail(cur), prev, rec, opts)

\* api.js: currentPeriod.filter(...).map(...)
RECURSIVE basicGetPagePerformanceComparison(_, _, _)
basicGetPagePerformanceComparison(cur, prev, opts) ==
    IF cur = <<>> THEN <<>>
    ELSE (IF basicRowQualifies(Head(cur), opts)
          THEN <<basicComparisonRecord(Head(cur), prev)>> ELSE <<>>)
         \o basicGetPagePerformanceComparison(Tail(cur), prev, opts)

(***************************************************************************)
(* Inputs                                                                  *)
(***************************************************************************)
\* the most rows one period holds in the run model
MaxPages == 2

\* one period's metrics of one URL as the reporting API returns them:
\* clicks <= impressions and ctr = clicks / impressions
Snapshot(c, i, pos) ==
    [clicks |-> c, impressions |-> i, ctr |-> IF i = 0 THEN QInt(0) ELSE Q(c, i),
     position |-> pos]

ClickVals == {0, 5, 50, 200, 300, 3000}
ImpVals == {52, 500, 2000, 5000, 6000}
PosVals == {5, 6, 8, 10}
RecentClickVals == {0, 5, 20}
RecentImpVals == {40, 150}

\* a row of the API has at least one impression
Snapshots ==
    {Snapshot(c, i, pos) : <<c, i, pos>> \in
        {t \in ClickVals \X ImpVals \X PosVals : t[1] <= t[2]}}

\* previous-period metrics: also the all-zero snapshot of the zero special case
PreviousSnapshots == Snapshots \cup {Snapshot(0, 0, pos) : pos \in PosVals}

\* the recent window lies inside the current one: it cannot have more clicks
\* or impressions than the current period
RecentSnapshots(cur) ==
    {Snapshot(c, i, 8) : <<c, i>> \in
        {t \in RecentClickVals \X RecentImpVals :
            t[1] <= t[2] /\ t[1] <= cur.clicks /\ t[2] <= cur.impressions}}

\* a PageComparison the diagnoser is run on (previous is never null there)
PageInput(c, p, r) ==
    [page |-> "/p", current |-> c, previous |-> p, recent |-> r, isNew |-> FALSE]

\* the run model: page URLs are 1..MaxPages
Urls == 1..MaxPages

Row(url, m) ==
    [keys |-> <<url>>, clicks |-> m.clicks, impressions |-> m.impressions,
     ctr |-> m.ctr, position |-> m.position]

RunCurrent == {Snapshot(0, 52, 8), Snapshot(5, 5000, 8), Snapshot(50, 500, 10)}
RunPrevious == {Snapshot(300, 2000, 5), Snapshot(50, 500, 10)}
RunRecent == {Snapshot(0, 40, 8)}

\* the rows of one period, one row per URL at most, in any order
PeriodsAnyOrder(metrics) ==
    UNION {{[i \in 1..n |-> Row(us[i], ms[i])] :
              <<us, ms>> \in {u \in [1..n -> Urls] :
                                \A i, j \in 1..n : i # j => u[i] # u[j]}
                             \X [1..n -> metrics]} :
           n \in 0..MaxPages}

\* the same, the rows in ascending URL order only (for the lookup maps the
\* order of the rows makes no difference)
PeriodsAscending(metrics) ==
    {per \in PeriodsAnyOrder(metrics) :
        \A i \in 1..(Len(per) - 1) : per[i].keys[1] < per[i + 1].keys[1]}

\* options objects passed to getPagePerformanceComparison
OptionVals ==
    {[minImpressions |-> 50],
     [minImpressions |-> 50, minClicks |-> 5],
     [minImpressions |-> 600, minClicks |-> 0],
     [minClicks |-> 1]}

\* the analysis engine not in use
CoreIdle ==
    /\ page = null /\ diagLocals = null /\ decay = null /\ basicDecay = null
    /\ currentPeriod = <<>> /\ previousPeriod = <<>> /\ recentPeriod = <<>>
    /\ options = null
    /\ comparison = <<>> /\ basicComparison = <<>>
    /\ analyzed = <<>> /\ basicAnalyzed = <<>>
    /\ summary = null /\ basicSummary = null

\* no history handed to calculateDecayVelocity
VelIdle == historicalData = <<>> /\ velocity = null

\* nothing exported
CsvIdle == csvPages = <<>> /\ csvText = <<>> /\ csvReader = null /\ csvParsed = <<>>

\* no fetch under way
FetchIdle ==
    /\ authStorage = <<>> /\ serverRows = <<>> /\ fetchVariant = "none"
    /\ fpc = "idle" /\ periodIndex = 0 /\ startRow = 0
    /\ allRows = <<>> /\ fetched = <<>> /\ networkLog = <<>>
    /\ fetchError = null /\ fetchComparison = null

\* the popup not opened
PopupIdle ==
    currentSiteUrl = null /\ currentAnalysis = null /\ screen = "" /\ calls = <<>>

\* the service worker not started
ServiceIdle == cacheStorage = <<>> /\ now = 0 /\ ticks = 0 /\ runs = <<>>

\* the extension not in use
WorkerIdle == ServiceIdle /\ PopupIdle

\* the other subsystems not in use
ExtIdle == VelIdle /\ CsvIdle /\ FetchIdle /\ WorkerIdle

(***************************************************************************)
(* SpecDiag: the diagnosers applied to one PageComparison                  *)
(***************************************************************************)
InitDiag ==
    /\ \E c \in Snapshots, p \in PreviousSnapshots :
          \E r \in RecentSnapshots(c) \cup {null} : page = PageInput(c, p, r)
    /\ diagLocals = null
    /\ decay = null
    /\ basicDecay = null
    /\ currentPeriod = <<>> /\ previousPeriod = <<>> /\ recentPeriod = <<>>
    /\ options = null
    /\ comparison = <<>> /\ basicComparison = <<>>
    /\ analyzed = <<>> /\ basicAnalyzed = <<>>
    /\ summary = null /\ basicSummary = null
    /\ pc = "diag"
    /\ ExtIdle

\* diagnoseDecay(page, weights)
DiagnoseDecay ==
    /\ pc = "diag"
    /\ decay = null
    /\ decay' = diagnoseDecay(page)
    /\ diagLocals' = diagnoseLocals(page)
    /\ UNCHANGED <<page, basicDecay, pc>>
    /\ UNCHANGED runVars
    /\ UNCHANGED extVars

\* calculateDecayMetrics(page.current, page.previous)
CalculateDecayMetrics ==
    /\ pc = "diag"
    /\ basicDecay = null
    /\ basicDecay' = calculateDecayMetrics(page.current, page.previous)
    /\ UNCHANGED <<page, diagLocals, decay, pc>>
    /\ UNCHANGED runVars
    /\ UNCHANGED extVars

NextDiag == DiagnoseDecay \/ CalculateDecayMetrics

SpecDiag == InitDiag /\ [][NextDiag]_vars

(***************************************************************************)
(* Spec: one analysis run, comparator -> analyzer -> site summary, in      *)
(* either variant                                                          *)
(***************************************************************************)
Init ==
    /\ page = null /\ diagLocals = null /\ decay = null /\ basicDecay = null
    /\ currentPeriod \in PeriodsAnyOrder(RunCurrent)
    /\ previousPeriod \in PeriodsAscending(RunPrevious)
    /\ recentPeriod \in PeriodsAscending(RunRecent)
    /\ options \in OptionVals
    /\ comparison = <<>> /\ basicComparison = <<>>
    /\ analyzed = <<>> /\ basicAnalyzed = <<>>
    /\ summary = null /\ basicSummary = null
    /\ pc = "fetched"
    /\ ExtIdle

\* part_001 getPagePerformanceComparison, after the three fetches returned
Compare ==
    /\ pc = "fetched"
    /\ comparison' = getPagePerformanceComparison(currentPeriod, previousPeriod,
                                                  recentPeriod, options)
    /\ pc' = "compared"
    /\ UNCHANGED <<currentPeriod, previousPeriod, recentPeriod, options,
                   basicComparison, analyzed, basicAnalyzed, summary, basicSummary>>
    /\ UNCHANGED diagVars
    /\ UNCHANGED extVars

\* api.js getPagePerformanceComparison, after the two fetches returned
BasicCompare ==
    /\ pc = "fetched"
    /\ basicComparison' = basicGetPagePerformanceComparison(currentPeriod,
                                                            previousPeriod, options)
    /\ pc' = "basicCompared"
    /\ UNCHANGED <<currentPeriod, previousPeriod, recentPeriod, options,
                   comparison, analyzed, basicAnalyzed, summary, basicSummary>>
    /\ UNCHANGED diagVars
    /\ UNCHANGED extVars

\* part_001 analyzeContentDecay(comparisonResult, options)
Analyze ==
    /\ pc = "compared"
    /\ IF ThrowsTypeError(comparison)
       THEN analyzed' = analyzed /\ pc' = "TypeError"
       ELSE analyzed' = analyzeContentDecay(comparison) /\ pc' = "analyzed"
    /\ UNCHANGED <<currentPeriod, previousPeriod, recentPeriod, options,
                   comparison, basicComparison, basicAnalyzed, summary, basicSummary>>
    /\ UNCHANGED diagVars
    /\ UNCHANGED extVars

\* decay-analyzer.js analyzeContentDecay(pageComparisons), on the list of
\* either comparator
BasicAnalyze ==
    /\ pc \in {"compared", "basicCompared"}
    /\ LET pageComparisons == IF pc = "compared" THEN comparison
                                                  ELSE basicComparison
       IN IF ThrowsTypeError(pageComparisons)
          THEN basicAnalyzed' = basicAnalyzed /\ pc' = "TypeError"
          ELSE /\ basicAnalyzed' = basicAnalyzeContentDecay(pageComparisons)
               /\ pc' = "basicAnalyzed"
    /\ UNCHANGED <<currentPeriod, previousPeriod, recentPeriod, options,
                   comparison, basicComparison, analyzed, summary, basicSummary>>
    /\ UNCHANGED diagVars
    /\ UNCHANGED extVars

\* part_001 calculateSiteSummary(analyzed.pages)
Summarize ==
    /\ pc = "analyzed"
    /\ summary' = calculateSiteSummary(analyzed)
    /\ pc' = "summarized"
    /\ UNCHANGED <<currentPeriod, previousPeriod, recentPeriod, options,
                   comparison, basicComparison, analyzed, basicAnalyzed, basicSummary>>
    /\ UNCHANGED diagVars
    /\ UNCHANGED extVars

\* decay-analyzer.js calculateSiteSummary(analyzed)
BasicSummarize ==
    /\ pc = "basicAnalyzed"
    /\ basicSummary' = basicCalculateSiteSummary(basicAnalyzed)
    /\ pc' = "basicSummarized"
    /\ UNCHANGED <<currentPeriod, previousPeriod, recentPeriod, options,
                   comparison, basicComparison, analyzed, basicAnalyzed, summary>>
    /\ UNCHANGED diagVars
    /\ UNCHANGED extVars

Next ==
    \/ Compare
    \/ BasicCompare
    \/ Analyze
    \/ BasicAnalyze
    \/ Summarize
    \/ BasicSummarize

Spec == Init /\ [][Next]_vars

(***************************************************************************)
(* SpecList: analyzeContentDecay called on a list of its caller's making,  *)
(* whose records may lack the current or the previous snapshot             *)
(***************************************************************************)
ListCurrent == {null, Snapshot(0, 52, 8), Snapshot(50, 500, 10)}
ListPrevious == {null, Snapshot(50, 500, 10)}

ListRecord(url, c, p) ==
    [page |-> url, current |-> c, previous |-> p, recent |-> null, isNew |-> p = null]

InitList ==
    /\ page = null /\ diagLocals = null /\ decay = null /\ basicDecay = null
    /\ currentPeriod = <<>> /\ previousPeriod = <<>> /\ recentPeriod = <<>>
    /\ options = null
    /\ \E n \in 1..MaxPages :
          \E cs \in [1..n -> ListCurrent], ps \in [1..n -> ListPrevious] :
             comparison = [i \in 1..n |-> ListRecord(i, cs[i], ps[i])]
    /\ basicComparison = <<>>
    /\ analyzed = <<>> /\ basicAnalyzed = <<>>
    /\ summary = null /\ basicSummary = null
    /\ pc = "compared"
    /\ ExtIdle

NextList == Analyze \/ BasicAnalyze

SpecList == InitList /\ [][NextList]_vars

(***************************************************************************)
(* Properties of the diagnosers (SpecDiag)                                 *)
(***************************************************************************)
\* the comparison "a / b < t" of a rational with an integer threshold
PctBelow(q, t) == q.num < t * q.den
PctAbove(q, t) == q.num > t * q.den

GhostTownCond == page.current.clicks = 0 /\ page.current.impressions < 100
ZombieCond == page.current.impressions > 1000 /\ 2 * page.current.ctr.num < page.current.ctr.den
BleederCond == PctBelow(diagLocals.changes.clicks, -10) /\ PctAbove(diagLocals.changes.position, -2)
RankRotCond == PctBelow(diagLocals.changes.position, -3)
HealthyCond == PctAbove(diagLocals.changes.clicks, -5)

DecayClasses == {"ghost_town", "zombie", "plunge", "bleeder", "rank_rot", "healthy", "decaying"}

\* C1: diagnoseDecay assigns exactly one decayClass, the first rule that
\* holds in the order ghost_town, zombie, plunge, bleeder, rank_rot, healthy,
\* else decaying; ghost_town and zombie never hold together.
C1_FirstMatchingRule ==
    decay # null =>
        /\ decay.decayClass \in DecayClasses
        /\ ~(GhostTownCond /\ ZombieCond)
        /\ GhostTownCond => decay.decayClass = "ghost_town"
        /\ ~GhostTownCond /\ ZombieCond => decay.decayClass = "zombie"
        /\ ~GhostTownCond /\ ~ZombieCond /\ diagLocals.isCliff => decay.decayClass = "plunge"
        /\ ~GhostTownCond /\ ~ZombieCond /\ ~diagLocals.isCliff /\ BleederCond
              => decay.decayClass = "bleeder"
        /\ ~GhostTownCond /\ ~ZombieCond /\ ~diagLocals.isCliff /\ ~BleederCond /\ RankRotCond
              => decay.decayClass = "rank_rot"
        /\ ~GhostTownCond /\ ~ZombieCond /\ ~diagLocals.isCliff /\ ~BleederCond /\ ~RankRotCond
              /\ HealthyCond => decay.decayClass = "healthy"
        /\ ~GhostTownCond /\ ~ZombieCond /\ ~diagLocals.isCliff /\ ~BleederCond /\ ~RankRotCond
              /\ ~HealthyCond => decay.decayClass = "decaying"

\* a page on a cliff that is also a zombie: the earlier rule wins
C1_Witness ==
    /\ decay # null
    /\ ZombieCond /\ diagLocals.isCliff /\ RankRotCond
    /\ decay.decayClass = "zombie"

\* C2 (as claimed): the recorded signals are exactly the tags whose
\* condition holds, whatever the decayClass.
C2_SignalsAreAllThatApply ==
    decay # null =>
        /\ Includes(decay.signals, "visibility_drop") <=> PctBelow(diagLocals.changes.impressions, -20)
        /\ Includes(decay.signals, "traffic_loss") <=> PctBelow(diagLocals.changes.clicks, -30)
        /\ Includes(decay.signals, "ctr_decline") <=> PctBelow(diagLocals.changes.ctr, -15)
        /\ Includes(decay.signals, "ranking_drop") <=> PctBelow(diagLocals.changes.position, -3)
        /\ Includes(decay.signals, "velocity_cliff") <=> diagLocals.isCliff
        /\ Includes(decay.signals, "low_ctr_high_imp") <=> ZombieCond

Severities == {"critical", "warning", "monitoring", "healthy"}

\* C3: severity is the table value of decayClass (plunge, rank_rot ->
\* critical; zombie, bleeder -> warning; ghost_town, decaying -> monitoring;
\* healthy -> healthy) and, in both analyzers, one of the four severities.
C3_SeverityTable ==
    /\ decay # null =>
          /\ decay.severity \in Severities
          /\ decay.decayClass \in {"plunge", "rank_rot"} => decay.severity = "critical"
          /\ decay.decayClass \in {"zombie", "bleeder"} => decay.severity = "warning"
          /\ decay.decayClass \in {"ghost_town", "decaying"} => decay.severity = "monitoring"
          /\ decay.decayClass = "healthy" => decay.severity = "healthy"
    /\ basicDecay # null => basicDecay.severity \in Severities

C3_Witness ==
    /\ decay # null /\ decay.decayClass = "decaying" /\ decay.severity = "monitoring"
    /\ basicDecay # null /\ basicDecay.severity = "critical"

\* C4: score = max(0, round(current.impressions * 0.20 - current.clicks)),
\* never negative, and 0 whenever current.clicks >= current.impressions * 0.20.
\* With t = 10 * (impressions * 0.20 - clicks) = 2 * impressions - 10 * clicks,
\* round(t / 10) = n iff 10 n - 5 <= t < 10 n + 5.
C4_RevivalScore ==
    decay # null =>
        LET t == 2 * page.current.impressions - 10 * page.current.clicks
        IN  /\ decay.score >= 0
            /\ decay.score > 0 => 10 * decay.score - 5 <= t /\ t < 10 * decay.score + 5
            /\ decay.score = 0 => t < 5
            /\ 5 * page.current.clicks >= page.current.impressions => decay.score = 0

\* clicks above a fifth of the impressions: the negative difference is clamped
C4_Witness ==
    /\ decay # null
    /\ 5 * page.current.clicks > page.current.impressions + 5
    /\ decay.score = 0

\* C5: the percent change of clicks, impressions and ctr is 100 when
\* previous = 0 and current > 0, 0 when both are 0, and otherwise
\* (current - previous) / previous * 100; positionDelta is
\* previous.position - current.position.
PercentChangeIs(q, curNum, curDen, prevNum, prevDen) ==
    IF prevNum = 0
    THEN (IF curNum > 0 THEN q.num = 100 * q.den ELSE q.num = 0)
    ELSE \* q = (cur - prev) / prev * 100, cross-multiplied
         q.num * (curDen * prevNum) = 100 * (curNum * prevDen - prevNum * curDen) * q.den

C5_PercentChange ==
    decay # null =>
        /\ PercentChangeIs(diagLocals.changes.clicks,
                           page.current.clicks, 1, page.previous.clicks, 1)
        /\ PercentChangeIs(diagLocals.changes.impressions,
                           page.current.impressions, 1, page.previous.impressions, 1)
        /\ PercentChangeIs(diagLocals.changes.ctr,
                           page.current.ctr.num, page.current.ctr.den,
                           page.previous.ctr.num, page.previous.ctr.den)
        /\ diagLocals.changes.position.den = 1
        /\ diagLocals.changes.position.num = page.previous.position - page.current.position
        /\ decay.changes.position = 10 * (page.previous.position - page.current.position)

C5_Witness ==
    /\ decay # null
    /\ page.previous.clicks = 0 /\ page.current.clicks > 0
    /\ page.previous.impressions > 0
    /\ decay.changes.clicks = 1000

\* C6: isCliff iff recent is present and
\* percentChange(recent.clicks / 7, current.clicks / 30) < -30; a page with
\* no recent snapshot is never plunge and never gets velocity_cliff.
\* For current.clicks > 0 the percent change is
\* (30 * recent.clicks - 7 * current.clicks) / (7 * current.clicks) * 100.
C6_CliffOnlyWithRecent ==
    decay # null =>
        /\ diagLocals.isCliff <=>
              /\ page.recent # null
              /\ page.current.clicks > 0
              /\ 100 * (30 * page.recent.clicks - 7 * page.current.clicks)
                    < (-30) * 7 * page.current.clicks
        /\ page.recent = null =>
              /\ ~diagLocals.isCliff
              /\ decay.decayClass # "plunge"
              /\ ~Includes(decay.signals, "velocity_cliff")

\* no recent snapshot although the month had clicks
C6_Witness ==
    /\ decay # null
    /\ page.recent = null
    /\ page.current.clicks > 0
    /\ decay.decayClass \in {"bleeder", "rank_rot", "decaying"}

\* C10: every diagnosis has a non-empty recommendation list: the template
\* of its class (the zombie template naming the score), or exactly
\* "Monitor performance." for healthy and decaying.
C10_Recommendations ==
    /\ decay # null =>
          /\ Len(decay.recommendation) >= 1
          /\ decay.decayClass \in {"healthy", "decaying"}
                => decay.recommendation = <<"Monitor performance.">>
          /\ decay.decayClass = "zombie"
                => /\ Len(decay.recommendation) = 2
                   /\ decay.recommendation[1] =
                        "Revive this Zombie: It has visibility but no clicks. Fix the Title & Meta Description ASAP."
                   /\ decay.recommendation[2] =
                        "Opportunity: Optimizing this could yield ~" \o ToString(decay.score) \o " more clicks."
          /\ decay.decayClass = "plunge" => decay.recommendation =
                <<"Stop the Plunge: Technical audit required. Check robots.txt and recent code pushes.">>
          /\ decay.decayClass = "bleeder" => decay.recommendation =
                <<"Stem the Bleed: Your content is aging. Add a \"Last Updated\" section and fresh stats.">>
          /\ decay.decayClass = "rank_rot" => decay.recommendation =
                <<"Fight Back: Competitors overtook you. Expand word count and add unique video/images.">>
          /\ decay.decayClass = "ghost_town" => decay.recommendation =
                <<"Exorcise: This page is dead. Consider deleting or 301 redirecting to a healthy page.">>
    /\ basicDecay # null => Len(basicDecay.recommendation) >= 1

C10_Witness ==
    /\ decay # null
    /\ decay.decayClass = "decaying"
    /\ decay.recommendation = <<"Monitor performance.">>

(***************************************************************************)
(* Properties of one analysis run (Spec)                                   *)
(***************************************************************************)
\* the list decay-analyzer.js analyzed: that of the comparator that ran
\* (the other comparator's list is still empty)
BasicAnalyzerInput == IF comparison # <<>> THEN comparison ELSE basicComparison

CountSeverity(pages, sev) ==
    Cardinality({i \in 1..Len(pages) : pages[i].decay.severity = sev})

\* sm is the summary the claim describes for the analyzed list pages;
\* h = round(x / n) iff 2 h n - n <= 2 x < 2 h n + n
SummaryOf(pages, sm) ==
    LET total == Len(pages)
        flaggedFree == CountSeverity(pages, "healthy") + CountSeverity(pages, "monitoring")
    IN  /\ sm.totalPages = total
        /\ sm.criticalCount = CountSeverity(pages, "critical")
        /\ sm.warningCount = CountSeverity(pages, "warning")
        /\ sm.monitoringCount = CountSeverity(pages, "monitoring")
        /\ sm.healthyCount = CountSeverity(pages, "healthy")
        /\ total = 0 =>
              /\ sm.healthScore = 100
              /\ sm.criticalCount = 0 /\ sm.warningCount = 0
              /\ sm.monitoringCount = 0 /\ sm.healthyCount = 0
        /\ total > 0 =>
              /\ 2 * sm.healthScore * total - total <= 200 * flaggedFree
              /\ 200 * flaggedFree < 2 * sm.healthScore * total + total
        /\ total > 0 /\ CountSeverity(pages, "critical") = total => sm.healthScore = 0

\* C7: healthScore = round((healthyCount + monitoringCount) / totalPages * 100)
\* over all analyzed pages; the empty list gives healthScore 100 and all
\* counts 0; a list of critical pages only gives healthScore 0.
C7_HealthScore ==
    /\ pc = "summarized" => SummaryOf(analyzed, summary)
    /\ pc = "basicSummarized" => SummaryOf(basicAnalyzed, basicSummary)

\* one monitoring and one critical page: half of the site counts as healthy
C7_Witness ==
    /\ pc = "summarized"
    /\ summary.totalPages = 2
    /\ summary.monitoringCount = 1
    /\ summary.criticalCount = 1
    /\ summary.healthScore = 50

InPreviousPeriod(pageUrl) ==
    \E k \in 1..Len(previousPeriod) : previousPeriod[k].keys[1] = pageUrl

\* every record of the comparison list tells whether the URL had a previous row
NewMarked(list) ==
    \A j \in 1..Len(list) :
        /\ list[j].isNew <=> ~InPreviousPeriod(list[j].page)
        /\ list[j].previous = null <=> ~InPreviousPeriod(list[j].page)

\* out holds the pages of inp that have a previous snapshot, once each, and no other
OnlyPagesWithPrevious(inp, out) ==
    /\ \A i \in 1..Len(out) :
          /\ out[i].previous # null
          /\ ~out[i].isNew
          /\ InPreviousPeriod(out[i].page)
    /\ \A j \in 1..Len(inp) :
          Cardinality({i \in 1..Len(out) : out[i].page = inp[j].page})
              = IF inp[j].previous # null THEN 1 ELSE 0
    /\ Len(out) = Cardinality({j \in 1..Len(inp) : inp[j].previous # null})

\* C8: a URL of the current period that is not in the previous period gets
\* previous = null and isNew = true and is never diagnosed; every page with
\* a previous snapshot is in the analyzer's output exactly once.
C8_NewPagesExcluded ==
    /\ NewMarked(comparison)
    /\ NewMarked(basicComparison)
    /\ pc \in {"analyzed", "summarized"} => OnlyPagesWithPrevious(comparison, analyzed)
    /\ pc \in {"basicAnalyzed", "basicSummarized"}
          => OnlyPagesWithPrevious(BasicAnalyzerInput, basicAnalyzed)

C8_Witness ==
    /\ pc = "analyzed"
    /\ Len(comparison) = 2
    /\ \E j \in 1..2 : comparison[j].isNew /\ comparison[j].previous = null
    /\ Len(analyzed) = 1

\* the thresholds the options stand for
MinImpressionsGiven == IF "minImpressions" \in DOMAIN options THEN options.minImpressions ELSE 100
MinClicksGiven == IF "minClicks" \in DOMAIN options THEN options.minClicks ELSE 0

\* list has one record per current-period row with an index in rows, in row order
EmitsExactly(list, rows) ==
    /\ Len(list) = Cardinality(rows)
    /\ \A i \in rows :
          LET k == Cardinality({j \in rows : j <= i})
          IN  /\ list[k].page = currentPeriod[i].keys[1]
              /\ list[k].current.clicks = currentPeriod[i].clicks
              /\ list[k].current.impressions = currentPeriod[i].impressions
              /\ list[k].current.ctr = currentPeriod[i].ctr
              /\ list[k].current.position = currentPeriod[i].position

SeverityRank(sev) ==
    CASE sev = "healthy" -> 0
      [] sev = "monitoring" -> 1
      [] sev = "warning" -> 2
      [] sev = "critical" -> 3

WorstFirst(list) ==
    \A i, j \in 1..Len(list) :
        i < j => SeverityRank(list[i].decay.severity) >= SeverityRank(list[j].decay.severity)

\* C11: analyzeContentDecay returns the analyzed pages sorted by decay
\* severity, worst first: no page of a less severe level precedes a page of a
\* more severe level, in either analyzer.
C11_SortedBySeverity ==
    /\ pc \in {"analyzed", "summarized"} => WorstFirst(analyzed)
    /\ pc \in {"basicAnalyzed", "basicSummarized"} => WorstFirst(basicAnalyzed)

\* the list returned by the analyzer that ran
AnalyzerOutput == IF pc = "analyzed" THEN analyzed ELSE basicAnalyzed

Diagnosed(list, url) == \E k \in 1..Len(list) : list[k].page = url

\* C13: a PageComparison that has no current snapshot is rejected as a single
\* record: it gets no Diagnosis, and the other pages of the list (those with a
\* current and a previous snapshot) are still diagnosed and returned.
C13_MalformedRecordRejected ==
    pc # "compared" =>
        \A i \in 1..Len(comparison) :
            /\ comparison[i].current = null =>
                  ~Diagnosed(analyzed, i) /\ ~Diagnosed(basicAnalyzed, i)
            /\ (comparison[i].current # null /\ comparison[i].previous # null) =>
                  /\ pc \in {"analyzed", "basicAnalyzed"}
                  /\ Diagnosed(AnalyzerOutput, i)

\* position of the record of a URL in a list
IndexOf(list, url) == CHOOSE i \in 1..Len(list) : list[i].page = url

\* every returned record is a record of the input list to which a decay field
\* was added, and pages of equal score keep the order they had in the input
NewRecordsInOrder(inp, out) ==
    /\ \A k \in 1..Len(out) :
          \E i \in 1..Len(inp) :
             /\ inp[i].page = out[k].page
             /\ DOMAIN out[k] = DOMAIN inp[i] \cup {"decay"}
             /\ \A f \in DOMAIN inp[i] : out[k][f] = inp[i][f]
    /\ \A k, l \in 1..Len(out) :
          (k < l /\ out[k].decay.score = out[l].decay.score)
             => IndexOf(inp, out[k].page) < IndexOf(inp, out[l].page)

\* C14: the Diagnosis is pure and deterministic: analyzeContentDecay leaves its
\* input list unchanged and returns newly created records; the decay of a
\* returned record is a function of that page's record alone, so that equal
\* inputs give equal outputs, the order of pages of equal score included
\* (they stay in input order).
C14_PureDiagnosis ==
    [][/\ pc = "compared" => comparison' = comparison
       /\ pc = "basicCompared" => basicComparison' = basicComparison
       /\ pc' = "analyzed" =>
             /\ NewRecordsInOrder(comparison, analyzed')
             /\ \A k \in 1..Len(analyzed') :
                   analyzed'[k].decay =
                       diagnoseDecay(comparison[IndexOf(comparison, analyzed'[k].page)])
       /\ pc' = "basicAnalyzed" =>
             LET inp == IF pc = "compared" THEN comparison ELSE basicComparison
             IN /\ NewRecordsInOrder(inp, basicAnalyzed')
                /\ \A k \in 1..Len(basicAnalyzed') :
                      LET rec == inp[IndexOf(inp, basicAnalyzed'[k].page)]
                      IN basicAnalyzed'[k].decay =
                             calculateDecayMetrics(rec.current, rec.previous)]_vars

\* two pages of equal score were analyzed, and the input had the page of the
\* larger URL first
C14_Witness ==
    /\ pc = "analyzed"
    /\ Len(comparison) = 2 /\ Len(analyzed) = 2
    /\ comparison[1].page > comparison[2].page
    /\ analyzed[1].decay.score = analyzed[2].decay.score
    /\ analyzed[1].page = comparison[1].page

(***************************************************************************)
(* Claims on the weighted-score analyzer (SpecDiag)                        *)
(***************************************************************************)
\* the levels the documented table gives a reported score (in tenths):
\* Critical > 30, Warning 15-30, Monitoring 5-15, Healthy < 5
TableSeverities(score) ==
    {sev \in {"critical", "warning", "monitoring", "healthy"} :
        \/ sev = "critical" /\ score > 300
        \/ sev = "warning" /\ score >= 150 /\ score <= 300
        \/ sev = "monitoring" /\ score >= 50 /\ score <= 150
        \/ sev = "healthy" /\ score < 50}

\* the part a metric adds to the score: only a decline counts
DeclineOnly(q, weight) == IF q.num < 0 THEN QMul(QAbs(q), weight) ELSE QInt(0)

\* C20: in the weighted-score analyzer the reported decay.score and
\* decay.severity agree with the documented table (critical above 30, warning
\* in 15-30, monitoring in 5-15, healthy below 5), and the score is the sum of
\* the declines only: clicks decline x 0.4 + impressions decline x 0.3 +
\* ctr decline x 0.2 + rank places lost x 2.
C20_ScoreAndSeverityTable ==
    basicDecay # null =>
        LET changes == StandardDeltas(page.current, page.previous)
        IN /\ basicDecay.severity \in TableSeverities(basicDecay.score)
           /\ basicDecay.score =
                 Round1(QAdd(QAdd(DeclineOnly(changes.clicks, Q(2, 5)),
                                  DeclineOnly(changes.impressions, Q(3, 10))),
                             QAdd(DeclineOnly(changes.ctr, Q(1, 5)),
                                  DeclineOnly(changes.position, QInt(2)))))

(***************************************************************************)
(* calculateDecayVelocity,                                                 *)
(* src/content-decay-extension/src/utils/decay-analyzer.js                 *)
(***************************************************************************)
\* JavaScript numbers that are not finite
Infinity == [finite |-> FALSE, value |-> "Infinity"]
NegInfinity == [finite |-> FALSE, value |-> "-Infinity"]
NaN == [finite |-> FALSE, value |-> "NaN"]

\* a / b of two integers, b >= 0, as JavaScript computes it: no exception on
\* b = 0 but Infinity, -Infinity or NaN
JsDivide(a, b) ==
    IF b = 0
    THEN (IF a = 0 THEN NaN ELSE IF a > 0 THEN Infinity ELSE NegInfinity)
    ELSE [finite |-> TRUE, value |-> Q(a, b)]

\* x / n * 100 for a positive integer n: a non-finite x stays what it is
JsPerWeekPercent(x, n) ==
    IF x.finite THEN [finite |-> TRUE, value |-> QMul(x.value, Q(100, n))] ELSE x

\* Math.round(x * 10) / 10: tenths when finite, x itself when not
JsRound1(x) ==
    IF x.finite THEN [finite |-> TRUE, tenths |-> Round1(x.value)] ELSE x

\* [...historicalData].sort((a, b) => new Date(a.date) - new Date(b.date))
RECURSIVE InsertByDate(_, _)
InsertByDate(sorted, d) ==
    IF sorted = <<>> THEN <<d>>
    ELSE IF Head(sorted).date <= d.date
         THEN <<Head(sorted)>> \o InsertByDate(Tail(sorted), d)
         ELSE <<d>> \o sorted

RECURSIVE SortByDate(_)
SortByDate(data) ==
    IF data = <<>> THEN <<>>
    ELSE InsertByDate(SortByDate(SubSeq(data, 1, Len(data) - 1)), data[Len(data)])

\* .reduce((sum, d) => sum + d.clicks, 0)
RECURSIVE SumClicks(_)
SumClicks(data) ==
    IF data = <<>> THEN 0 ELSE Head(data).clicks + SumClicks(Tail(data))

calculateDecayVelocity(data) ==
    IF Len(data) < 7 THEN null
    ELSE LET sorted == SortByDate(data)
             firstWeek == SumClicks(SubSeq(sorted, 1, 7))
             lastWeek == SumClicks(SubSeq(sorted, Len(sorted) - 6, Len(sorted)))
             totalWeeks == Len(sorted) \div 7
             weeklyDecayRate ==
                 IF totalWeeks > 1
                 THEN JsPerWeekPercent(JsDivide(lastWeek - firstWeek, firstWeek),
                                       totalWeeks)
                 ELSE [finite |-> TRUE, value |-> QInt(0)]
         IN  [firstWeekClicks    |-> firstWeek,
              lastWeekClicks     |-> lastWeek,
              weeklyDecayRate    |-> JsRound1(weeklyDecayRate),
              totalWeeksAnalyzed |-> totalWeeks]

(***************************************************************************)
(* SpecVelocity: calculateDecayVelocity on the daily history of one page   *)
(***************************************************************************)
MaxDays == 14
DayClickVals == {0, 3}

InitVelocity ==
    /\ CoreIdle
    /\ \E n \in 0..MaxDays :
          \E clicks \in [1..n -> DayClickVals], ascending \in BOOLEAN :
             historicalData =
                 [i \in 1..n |-> [date   |-> IF ascending THEN i ELSE n + 1 - i,
                                  clicks |-> clicks[i]]]
    /\ velocity = null
    /\ CsvIdle
    /\ FetchIdle
    /\ WorkerIdle
    /\ pc = "history"

CalculateDecayVelocity ==
    /\ pc = "history"
    /\ velocity' = calculateDecayVelocity(historicalData)
    /\ pc' = "velocity"
    /\ UNCHANGED <<historicalData, diagVars, runVars, csvVars, fetchVars, workerVars>>

NextVelocity == CalculateDecayVelocity

SpecVelocity == InitVelocity /\ [][NextVelocity]_vars

\* C19: no numeric formula divides by zero: percent changes with a zero
\* previous value, the velocity check with zero current clicks and
\* calculateDecayVelocity with a zero first-week total all return finite
\* numbers.
C19_NoDivisionByZero ==
    (pc = "velocity" /\ velocity # null) => velocity.weeklyDecayRate.finite

(***************************************************************************)
(* exportToCSV of src/unnamed/part_001 and of decay-analyzer.js            *)
(*                                                                         *)
(* A string is the sequence of its characters, with every run of           *)
(* characters other than the double quote, the comma and the line feed     *)
(* kept as one element.                                                    *)
(***************************************************************************)
DQ == "\""
COMMA == ","
LF == "\n"
IsSpecial(t) == t \in {DQ, COMMA, LF}

\* the characters of a string of the program; of the strings that reach a
\* cell only the bleeder recommendation holds a quote, comma or line feed
Chars(str) ==
    IF str = "" THEN <<>>
    ELSE IF str = "Stem the Bleed: Your content is aging. Add a \"Last Updated\" section and fresh stats."
    THEN <<"Stem the Bleed: Your content is aging. Add a ", DQ, "Last Updated", DQ,
           " section and fresh stats.">>
    ELSE <<str>>

\* `${c}` of an integer
NumberText(n) == <<ToString(n)>>

\* `${c}` of a number held in tenths: 125 is "12.5", -70 is "-7", 5 is "0.5"
TenthsText(t) ==
    <<(IF t < 0 THEN "-" ELSE "") \o ToString(Abs(t) \div 10)
        \o (IF Abs(t) % 10 = 0 THEN "" ELSE "." \o ToString(Abs(t) % 10))>>

\* strings.join(sep)
RECURSIVE JoinStrings(_, _)
JoinStrings(strings, sep) ==
    IF strings = <<>> THEN ""
    ELSE IF Len(strings) = 1 THEN strings[1]
    ELSE strings[1] \o sep \o JoinStrings(Tail(strings), sep)

\* parts.join(sep) of strings held as character sequences
RECURSIVE JoinChars(_, _)
JoinChars(parts, sep) ==
    IF parts = <<>> THEN <<>>
    ELSE IF Len(parts) = 1 THEN parts[1]
    ELSE parts[1] \o <<sep>> \o JoinChars(Tail(parts), sep)

\* `"${c}"`
QuoteCell(c) == <<DQ>> \o c \o <<DQ>>

\* [headers, ...rows].map(r => r.map(c => `"${c}"`).join(',')).join('\n')
SerializeRows(rows) ==
    JoinChars([i \in 1..Len(rows) |->
                  JoinChars([k \in 1..Len(rows[i]) |-> QuoteCell(rows[i][k])], COMMA)],
              LF)

\* p.previous?.clicks || 0
PreviousClicksOrZero(p) == IF p.previous = null THEN 0 ELSE p.previous.clicks

\* x || fallback of strings
OrString(x, fallback) == IF x = "" THEN fallback ELSE x

\* exportToCSV of part_001
csvHeaders ==
    <<"URL", "Diagnosis", "Severity", "Score", "Clicks Change %",
      "Impression Change %", "CTR Change %", "Pos Change", "Current Clicks",
      "Previous Clicks", "Recs">>

csvRow(p) ==
    <<p.page,
      Chars(OrString(JoinStrings(p.decay.symptoms, " + "), "General Decay")),
      Chars(p.decay.severity),
      NumberText(p.decay.score),
      TenthsText(p.decay.changes.clicks),
      TenthsText(p.decay.changes.impressions),
      TenthsText(p.decay.changes.ctr),
      TenthsText(p.decay.changes.position),
      NumberText(p.current.clicks),
      NumberText(PreviousClicksOrZero(p)),
      Chars(IF p.decay.recommendation = <<>> THEN "" ELSE p.decay.recommendation[1])>>

exportToCSV(analyzedPages) ==
    SerializeRows(<<[k \in 1..Len(csvHeaders) |-> Chars(csvHeaders[k])]>>
                  \o [i \in 1..Len(analyzedPages) |-> csvRow(analyzedPages[i])])

\* exportToCSV of decay-analyzer.js
basicCsvHeaders ==
    <<"URL", "Severity", "Decay Score", "Clicks Change %", "Impressions Change %",
      "CTR Change %", "Position Change", "Current Clicks", "Previous Clicks",
      "Signals">>

basicCsvRow(p) ==
    <<p.page,
      Chars(p.decay.severity),
      TenthsText(p.decay.score),
      TenthsText(p.decay.changes.clicks),
      TenthsText(p.decay.changes.impressions),
      TenthsText(p.decay.changes.ctr),
      TenthsText(p.decay.changes.position),
      NumberText(p.current.clicks),
      NumberText(PreviousClicksOrZero(p)),
      Chars(JoinStrings(p.decay.signals, "; "))>>

basicExportToCSV(analyzedPages) ==
    SerializeRows(<<[k \in 1..Len(basicCsvHeaders) |-> Chars(basicCsvHeaders[k])]>>
                  \o [i \in 1..Len(analyzedPages) |-> basicCsvRow(analyzedPages[i])])

(***************************************************************************)
(* The reader of the exported file: quoted CSV, a cell between double      *)
(* quotes, a doubled quote inside it standing for one quote; a character   *)
(* after a closing quote that is neither comma nor line feed is taken as   *)
(* more of the cell.                                                       *)
(***************************************************************************)
AppendChar(cell, t) ==
    IF cell # <<>> /\ ~IsSpecial(t) /\ ~IsSpecial(cell[Len(cell)])
    THEN [cell EXCEPT ![Len(cell)] = @ \o t]
    ELSE Append(cell, t)

\* one character read in the state st = [state, cell, row, rows]
ParseStep(st, t) ==
    LET more == [st EXCEPT !.cell = AppendChar(st.cell, t)]
        endCell == [st EXCEPT !.state = "start", !.cell = <<>>,
                              !.row = Append(st.row, st.cell)]
        endRow == [st EXCEPT !.state = "start", !.cell = <<>>, !.row = <<>>,
                             !.rows = Append(st.rows, Append(st.row, st.cell))]
    IN  CASE st.state = "start" ->
               IF t = DQ THEN [st EXCEPT !.state = "quoted"]
               ELSE IF t = COMMA THEN endCell
               ELSE IF t = LF THEN endRow
               ELSE [more EXCEPT !.state = "unquoted"]
          [] st.state = "quoted" ->
               IF t = DQ THEN [st EXCEPT !.state = "quoteInQuoted"] ELSE more
          [] st.state = "quoteInQuoted" ->
               IF t = DQ THEN [more EXCEPT !.state = "quoted"]
               ELSE IF t = COMMA THEN endCell
               ELSE IF t = LF THEN endRow
               ELSE [more EXCEPT !.state = "unquoted"]
          [] st.state = "unquoted" ->
               IF t = COMMA THEN endCell
               ELSE IF t = LF THEN endRow
               ELSE more

\* the reader before its first character
ReaderStart == [state |-> "start", cell |-> <<>>, row |-> <<>>, rows |-> <<>>, pos |-> 1]

\* the rows read when the text ends; the last row needs no line feed after it
ReaderRows(st) ==
    IF st.state = "start" /\ st.row = <<>> THEN st.rows
    ELSE Append(st.rows, Append(st.row, st.cell))

(***************************************************************************)
(* SpecCsv: export of an analyzed list, then the file read back            *)
(***************************************************************************)
MaxCsvRows == 2

\* page URLs, as character sequences
CsvUrlVals ==
    {<<"https://example.com/a">>,
     <<"https://example.com/b?tags=x", COMMA, "y">>,
     <<"https://example.com/search?q=", DQ, "decay", DQ>>}

\* a bleeder and a healthy page
CsvSnapshots ==
    {<<Snapshot(50, 500, 10), Snapshot(200, 500, 10)>>,
     <<Snapshot(50, 500, 10), Snapshot(50, 500, 10)>>}

InitCsv ==
    /\ CoreIdle
    /\ VelIdle
    /\ \E n \in 0..MaxCsvRows :
          \E urls \in [1..n -> CsvUrlVals], ms \in [1..n -> CsvSnapshots] :
             LET list == [i \in 1..n |->
                             [page |-> urls[i], current |-> ms[i][1],
                              previous |-> ms[i][2], recent |-> null,
                              isNew |-> FALSE]]
             IN  csvPages \in {<<"part_001", analyzeContentDecay(list)>>,
                               <<"decay-analyzer.js", basicAnalyzeContentDecay(list)>>}
    /\ csvText = <<>>
    /\ csvReader = ReaderStart
    /\ csvParsed = <<>>
    /\ FetchIdle
    /\ WorkerIdle
    /\ pc = "analyzed"

\* exportToCSV(analyzed) of part_001
ExportToCSV ==
    /\ pc = "analyzed"
    /\ csvPages[1] = "part_001"
    /\ csvText' = exportToCSV(csvPages[2])
    /\ pc' = "exported"
    /\ UNCHANGED <<csvPages, csvReader, csvParsed, diagVars, runVars, velVars,
                   fetchVars, workerVars>>

\* exportToCSV(cached.pages) of decay-analyzer.js, as handleExportCSV calls it
BasicExportToCSV ==
    /\ pc = "analyzed"
    /\ csvPages[1] = "decay-analyzer.js"
    /\ csvText' = basicExportToCSV(csvPages[2])
    /\ pc' = "exported"
    /\ UNCHANGED <<csvPages, csvReader, csvParsed, diagVars, runVars, velVars,
                   fetchVars, workerVars>>

\* the reader takes the next character of the downloaded file
ReadChar ==
    /\ pc = "exported"
    /\ csvReader.pos <= Len(csvText)
    /\ csvReader' = [ParseStep(csvReader, csvText[csvReader.pos])
                        EXCEPT !.pos = csvReader.pos + 1]
    /\ UNCHANGED <<csvPages, csvText, csvParsed, pc, diagVars, runVars, velVars,
                   fetchVars, workerVars>>

\* the reader reaches the end of the file
ReadEnd ==
    /\ pc = "exported"
    /\ csvReader.pos > Len(csvText)
    /\ csvParsed' = ReaderRows(csvReader)
    /\ pc' = "parsed"
    /\ UNCHANGED <<csvPages, csvText, csvReader, diagVars, runVars, velVars,
                   fetchVars, workerVars>>

NextCsv == ExportToCSV \/ BasicExportToCSV \/ ReadChar \/ ReadEnd

SpecCsv == InitCsv /\ [][NextCsv]_vars

\* the column of a header cell
ColumnOf(header, name) == CHOOSE k \in 1..Len(header) : header[k] = <<name>>

HasColumn(header, name) == \E k \in 1..Len(header) : header[k] = <<name>>

\* C12: CSV export round trip: exportToCSV writes a header row and one row per
\* page, every cell wrapped in double quotes; parsing that quoted CSV back
\* yields N rows, each with as many cells as the header and with the URL and
\* the severity of the page it was written from, for every page URL.
C12_CsvRoundTrip ==
    pc = "parsed" =>
        /\ Len(csvParsed) = Len(csvPages[2]) + 1
        /\ HasColumn(csvParsed[1], "URL") /\ HasColumn(csvParsed[1], "Severity")
        /\ \A i \in 1..Len(csvPages[2]) :
              /\ Len(csvParsed[i + 1]) = Len(csvParsed[1])
              /\ csvParsed[i + 1][ColumnOf(csvParsed[1], "URL")] = csvPages[2][i].page
              /\ csvParsed[i + 1][ColumnOf(csvParsed[1], "Severity")]
                     = <<csvPages[2][i].decay.severity>>

(***************************************************************************)
(* Fetch layer: apiRequest, querySearchAnalytics, queryAllSearchAnalytics  *)
(* and the fetches of getPagePerformanceComparison, in src/unnamed/part_001 *)
(* and src/content-decay-extension/src/utils/api.js.                       *)
(*                                                                         *)
(* The rows of a response are kept as the range [from, to) of their        *)
(* indexes in the result the API holds for the period.                     *)
(***************************************************************************)
rowLimit == 25000
delayMs == 500

Min(a, b) == IF a <= b THEN a ELSE b

\* if (!accessToken) ...
hasToken(storage) == "accessToken" \in DOMAIN storage /\ storage.accessToken # ""

\* chrome.storage.local.remove(['accessToken', 'expiresAt'])
removeTokens(storage) ==
    [k \in DOMAIN storage \ {"accessToken", "expiresAt"} |-> storage[k]]

\* response.ok
responseOk(status) == status >= 200 /\ status <= 299

\* apiRequest once fetch has returned: whether it throws, the message of the
\* Error, and the storage it leaves; the token is kept on every status but 401
apiRequestOutcome_keepToken(storage, response) ==
    IF response.status = 401
    THEN [threw |-> TRUE, error |-> "Token expired. Please sign in again.",
          storage |-> storage]
    ELSE IF ~responseOk(response.status)
    THEN [threw |-> TRUE,
          error |-> IF response.message # "" THEN response.message
                    ELSE "API request failed: " \o ToString(response.status),
          storage |-> storage]
    ELSE [threw |-> FALSE, error |-> "", storage |-> storage]

apiRequestOutcome(storage, response) ==
    IF response.status = 401
    THEN [threw |-> TRUE, error |-> "Token expired. Please sign in again.",
          storage |-> removeTokens(storage)]
    ELSE IF ~responseOk(response.status)
    THEN [threw |-> TRUE,
          error |-> IF response.message # "" THEN response.message
                    ELSE "API request failed: " \o ToString(response.status),
          storage |-> storage]
    ELSE [threw |-> FALSE, error |-> "", storage |-> storage]

\* data.rows || [] for a request of rowLimit rows from startRow on, when the
\* API holds n rows for the period
serverPage(n, start, limit) == [from |-> Min(start, n), to |-> Min(n, start + limit)]

\* rows.length
pageLength(rows) == rows.to - rows.from

\* allRows.push(...rows)
pushRows(all, rows) == IF pageLength(rows) = 0 THEN all ELSE Append(all, rows)

\* the loop left only on an empty page
pageIsLast_onEmpty(rows) == pageLength(rows) = 0

\* if (rows.length < rowLimit) break
pageIsLast(rows) == pageLength(rows) < rowLimit

\* the awaited fetches of getPagePerformanceComparison, in order
periodsOf(variant) ==
    IF variant = "part_001" THEN <<"current", "previous", "recent">>
    ELSE <<"current", "previous">>

\* part_001 fetches with queryAllSearchAnalytics, api.js with one
\* querySearchAnalytics per period
paginates(variant) == variant = "part_001"

\* the comparison built as soon as the first period is in
nextAfterPeriod_early(variant, index) == "compare"

\* after the await of a period: the next await, or the lookup maps and the
\* comparison list
nextAfterPeriod(variant, index) ==
    IF index < Len(periodsOf(variant)) THEN "request" ELSE "compare"

(***************************************************************************)
(* SpecFetch: one call of getPagePerformanceComparison, up to the point    *)
(* where the comparator starts on the fetched periods                      *)
(***************************************************************************)
MaxFullPages == 1

\* numbers of rows the API may hold for a period
RowCounts ==
    {0, 1} \cup {k * rowLimit : k \in 1..MaxFullPages}
           \cup {k * rowLimit + 1 : k \in 1..MaxFullPages}

\* HTTP responses: status and error.message of the body ("" when it has none)
Responses ==
    {[status |-> 200, message |-> ""],
     [status |-> 401, message |-> "Invalid Credentials"],
     [status |-> 403, message |-> "User rate limit exceeded"],
     [status |-> 500, message |-> ""]}

StorageVals == {<<>>, [accessToken |-> "ya29.token", expiresAt |-> 3600000]}

InitFetch ==
    /\ CoreIdle
    /\ VelIdle
    /\ CsvIdle
    /\ WorkerIdle
    /\ pc = "fetching"
    /\ authStorage \in StorageVals
    /\ serverRows \in [{"current", "previous", "recent"} -> RowCounts]
    /\ fetchVariant \in {"part_001", "api.js"}
    /\ fpc = "request"
    /\ periodIndex = 1
    /\ startRow = 0
    /\ allRows = <<>>
    /\ fetched = <<>>
    /\ networkLog = <<>>
    /\ fetchError = null
    /\ fetchComparison = null

\* apiRequest up to its fetch(...) call
SendRequest ==
    /\ fpc = "request"
    /\ IF ~hasToken(authStorage)
       THEN /\ fetchError' = [message |-> "Not authenticated"]
            /\ fpc' = "failed"
            /\ UNCHANGED networkLog
       ELSE /\ networkLog' = Append(networkLog,
                                    [type |-> "request",
                                     period |-> periodsOf(fetchVariant)[periodIndex],
                                     startRow |-> startRow,
                                     rowLimit |-> rowLimit])
            /\ fpc' = "waiting"
            /\ UNCHANGED fetchError
    /\ UNCHANGED <<authStorage, serverRows, fetchVariant, periodIndex, startRow,
                   allRows, fetched, fetchComparison>>
    /\ UNCHANGED <<diagVars, runVars, pc, velVars, csvVars, workerVars>>

\* the response arrives: the rest of apiRequest, of querySearchAnalytics and
\* of the loop body of queryAllSearchAnalytics
ReceiveResponse ==
    /\ fpc = "waiting"
    /\ \E response \in Responses :
          LET period == periodsOf(fetchVariant)[periodIndex]
              out == apiRequestOutcome(authStorage, response)
              rows == IF out.threw THEN [from |-> 0, to |-> 0]
                      ELSE serverPage(serverRows[period], startRow, rowLimit)
              newAll == pushRows(allRows, rows)
              next == nextAfterPeriod(fetchVariant, periodIndex)
          IN  /\ networkLog' = Append(networkLog,
                                      [type |-> "response", period |-> period,
                                       status |-> response.status,
                                       message |-> response.message,
                                       rows |-> pageLength(rows)])
              /\ authStorage' = out.storage
              /\ IF out.threw
                 THEN /\ fetchError' = [message |-> out.error]
                      /\ fpc' = "failed"
                      /\ UNCHANGED <<periodIndex, startRow, allRows, fetched>>
                 ELSE IF ~paginates(fetchVariant) \/ pageIsLast(rows)
                 THEN /\ fetched' = Append(fetched, newAll)
                      /\ allRows' = <<>>
                      /\ startRow' = 0
                      /\ fpc' = next
                      /\ periodIndex' = IF next = "request" THEN periodIndex + 1
                                        ELSE periodIndex
                      /\ UNCHANGED fetchError
                 ELSE /\ allRows' = newAll
                      /\ startRow' = startRow + rowLimit
                      /\ fpc' = "delay"
                      /\ UNCHANGED <<periodIndex, fetched, fetchError>>
    /\ UNCHANGED <<serverRows, fetchVariant, fetchComparison>>
    /\ UNCHANGED <<diagVars, runVars, pc, velVars, csvVars, workerVars>>

\* await new Promise(resolve => setTimeout(resolve, 500))
Delay ==
    /\ fpc = "delay"
    /\ networkLog' = Append(networkLog,
                            [type |-> "delay",
                             period |-> periodsOf(fetchVariant)[periodIndex],
                             ms |-> delayMs])
    /\ fpc' = "request"
    /\ UNCHANGED <<authStorage, serverRows, fetchVariant, periodIndex, startRow,
                   allRows, fetched, fetchError, fetchComparison>>
    /\ UNCHANGED <<diagVars, runVars, pc, velVars, csvVars, workerVars>>

\* every await has returned: the lookup maps and the comparison list are
\* built from the fetched periods
BuildComparison ==
    /\ fpc = "compare"
    /\ fetchComparison' = [periods |-> fetched]
    /\ fpc' = "done"
    /\ UNCHANGED <<authStorage, serverRows, fetchVariant, periodIndex, startRow,
                   allRows, fetched, networkLog, fetchError>>
    /\ UNCHANGED <<diagVars, runVars, pc, velVars, csvVars, workerVars>>

NextFetch == SendRequest \/ ReceiveResponse \/ Delay \/ BuildComparison

SpecFetch == InitFetch /\ [][NextFetch]_vars

(***************************************************************************)
(* Claims on the fetch layer (SpecFetch)                                   *)
(***************************************************************************)
IsRequest(e) == e.type = "request"
IsResponse(e) == e.type = "response"
IsDelay(e) == e.type = "delay"

\* the ranges follow one another from row 0 on
Contiguous(all) ==
    /\ all # <<>> => all[1].from = 0
    /\ \A k \in 1..(Len(all) - 1) : all[k + 1].from = all[k].to

RowsIn(all) == IF all = <<>> THEN 0 ELSE all[Len(all)].to

\* C16: queryAllSearchAnalytics paginates sequentially: it requests pages of
\* 25000 rows at startRow 0, 25000, 50000, ..., a next page only after a full
\* page and after the fixed delay, and ends at the first page shorter than the
\* page size; its result is the concatenation of the pages in order, no row
\* dropped or duplicated.
C16_Pagination ==
    fetchVariant = "part_001" =>
        /\ \A i \in 1..Len(networkLog) :
              IsRequest(networkLog[i]) =>
                 /\ networkLog[i].rowLimit = 25000
                 /\ IF networkLog[i].startRow = 0
                    THEN i = 1 \/ (/\ IsResponse(networkLog[i - 1])
                                   /\ networkLog[i - 1].period # networkLog[i].period)
                    ELSE /\ i > 3
                         /\ networkLog[i - 1] = [type |-> "delay",
                                                 period |-> networkLog[i].period,
                                                 ms |-> 500]
                         /\ IsResponse(networkLog[i - 2])
                         /\ networkLog[i - 2].period = networkLog[i].period
                         /\ networkLog[i - 2].status = 200
                         /\ networkLog[i - 2].rows = 25000
                         /\ IsRequest(networkLog[i - 3])
                         /\ networkLog[i - 3].period = networkLog[i].period
                         /\ networkLog[i - 3].startRow = networkLog[i].startRow - 25000
        /\ \A i, j \in 1..Len(networkLog) :
              (/\ i < j
               /\ IsResponse(networkLog[i])
               /\ networkLog[i].status = 200
               /\ networkLog[i].rows < 25000)
                 => ~(IsRequest(networkLog[j]) /\ networkLog[j].period = networkLog[i].period)
        /\ \A k \in 1..Len(fetched) :
              /\ Contiguous(fetched[k])
              /\ RowsIn(fetched[k]) = serverRows[<<"current", "previous", "recent">>[k]]

\* a period of 25001 rows was fetched in two pages
C16_Witness ==
    /\ fetchVariant = "part_001"
    /\ Len(fetched) >= 1
    /\ fetched[1] = <<[from |-> 0, to |-> 25000], [from |-> 25000, to |-> 25001]>>
    /\ \E i \in 1..Len(networkLog) :
          IsRequest(networkLog[i]) /\ networkLog[i].startRow = 25000

\* the periods the comparator of a variant reads
NeededPeriods ==
    IF fetchVariant = "part_001" THEN {"current", "previous", "recent"}
    ELSE {"current", "previous"}

\* the fetch of a period returned: its last response is a page that ends it
PeriodComplete(period) ==
    \E i \in 1..Len(networkLog) :
        /\ IsResponse(networkLog[i])
        /\ networkLog[i].period = period
        /\ networkLog[i].status = 200
        /\ fetchVariant = "part_001" => networkLog[i].rows < 25000

SomeFetchFailed ==
    \/ fetchError # null
    \/ \E i \in 1..Len(networkLog) :
          IsResponse(networkLog[i]) /\ networkLog[i].status # 200

\* C17: all period fetches complete before the comparator builds any record:
\* a comparison exists only when every period it reads has been fetched to
\* its end; if any fetch fails the comparison as a whole fails and no
\* comparison list is produced at all.
C17_FetchesBeforeComparison ==
    /\ fetchComparison # null =>
          /\ \A period \in NeededPeriods : PeriodComplete(period)
          /\ Len(fetchComparison.periods) = Cardinality(NeededPeriods)
          /\ ~SomeFetchFailed
    /\ SomeFetchFailed => fetchComparison = null /\ fpc = "failed"

\* the fetch of a later period failed after an earlier one had returned
C17_Witness ==
    /\ fpc = "failed"
    /\ Len(fetched) >= 1
    /\ networkLog # <<>>
    /\ networkLog[Len(networkLog)].status = 500
    /\ fetchComparison = null

\* C18: apiRequest maps errors as follows: with no access token stored it
\* fails with 'Not authenticated' without sending a network request; on HTTP
\* 401 it removes the stored accessToken and fails with a re-authentication
\* error; on any other non-OK status it fails with the API's error message,
\* or with the status code when there is none, and leaves the token unchanged.
C18_ApiRequestErrors ==
    [][/\ (fpc = "request" /\ ~hasToken(authStorage)) =>
             /\ fetchError' = [message |-> "Not authenticated"]
             /\ networkLog' = networkLog
             /\ authStorage' = authStorage
       /\ fpc = "waiting" =>
             LET response == networkLog'[Len(networkLog')]
             IN  /\ IsResponse(response)
                 /\ response.status = 401 =>
                       /\ "accessToken" \notin DOMAIN authStorage'
                       /\ fetchError' = [message |-> "Token expired. Please sign in again."]
                 /\ (response.status # 401 /\ ~(response.status \in 200..299)) =>
                       /\ authStorage' = authStorage
                       /\ fetchError' =
                             [message |-> IF response.message # "" THEN response.message
                                          ELSE "API request failed: "
                                                   \o ToString(response.status)]
                 /\ response.status \in 200..299 =>
                       authStorage' = authStorage /\ fetchError' = null]_vars

\* a request was answered 401: the token is gone and the re-authentication
\* error was thrown
C18_Witness ==
    /\ fetchError = [message |-> "Token expired. Please sign in again."]
    /\ networkLog # <<>>
    /\ networkLog[Len(networkLog)].status = 401
    /\ "accessToken" \notin DOMAIN authStorage

(***************************************************************************)
(* Service worker: handleMessage, handleAnalyzeSite and getCachedAnalysis  *)
(* of src/content-decay-extension/src/background/service-worker.js, which  *)
(* imports the comparator of api.js and the weighted-score analyzer.       *)
(* cacheStorage is chrome.storage.local: a key is the sequence of the      *)
(* chunks of its string, a key that is not stored has the value null.      *)
(***************************************************************************)
\* const maxAge = 12 * 60 * 60 * 1000
maxAge == 12 * 60 * 60 * 1000

\* an entry of exactly 12 hours still served
cacheIsFresh_inclusive(age) == age <= maxAge

\* if (age < maxAge)
cacheIsFresh(age) == age < maxAge

Sites == {"sc-domain:a.example", "https://b.example/"}

\* an encoding that keeps the first three bytes only
btoa_firstBytes(siteUrl) == IF siteUrl \in Sites THEN "c2Mt" ELSE ""

\* btoa(siteUrl): the base64 text of the site URLs of the model
btoa(siteUrl) ==
    IF siteUrl = "sc-domain:a.example" THEN "c2MtZG9tYWluOmEuZXhhbXBsZQ=="
    ELSE IF siteUrl = "https://b.example/" THEN "aHR0cHM6Ly9iLmV4YW1wbGUv"
    ELSE ""

\* const cacheKey = `analysis_${btoa(siteUrl)}`
cacheKey(siteUrl) == <<"analysis_", btoa(siteUrl)>>

\* the keys auth.js and the popup store
accessTokenKey == <<"accessToken">>
userInfoKey == <<"userInfo">>

\* every key of the storage area
StorageKeys == {accessTokenKey, userInfoKey} \cup {cacheKey(s) : s \in Sites}

\* getCachedAnalysis(siteUrl) at the time given
getCachedAnalysis(storage, siteUrl, time) ==
    LET entry == storage[cacheKey(siteUrl)]
    IN  IF entry # null /\ cacheIsFresh(time - entry.timestamp)
        THEN [success   |-> TRUE,
              cached    |-> TRUE,
              cacheAge  |-> MathRound(Q(time - entry.timestamp, 1000 * 60)),
              timestamp |-> entry.timestamp,
              summary   |-> entry.summary,
              pages     |-> entry.pages]
        ELSE [success |-> FALSE, cached |-> FALSE]

\* an entry that keeps the summary of an empty site
cacheEntry_emptySummary(time, comparisonList) ==
    [timestamp |-> time,
     summary   |-> basicCalculateSiteSummary(<<>>),
     pages     |-> basicAnalyzeContentDecay(comparisonList)]

\* the value handleAnalyzeSite stores: { timestamp: Date.now(), summary, pages }
cacheEntry(time, comparisonList) ==
    LET analyzedPages == basicAnalyzeContentDecay(comparisonList)
    IN  [timestamp |-> time,
         summary   |-> basicCalculateSiteSummary(analyzedPages),
         pages     |-> analyzedPages]

\* the object handleAnalyzeSite returns after a fresh analysis
freshResponse(entry) ==
    [success |-> TRUE, cached |-> FALSE, summary |-> entry.summary, pages |-> entry.pages]

\* catch (error) { return { success: false, error: error.message } }
errorResponse(message) == [success |-> FALSE, error |-> message]

\* the part of the storage apiRequest reads and removes
authView(storage) ==
    IF storage[accessTokenKey] # null
    THEN [accessToken |-> storage[accessTokenKey].value]
    ELSE <<>>

\* a sign-out that clears the whole storage area
withAuth_clearsAll(storage, auth) ==
    IF hasToken(auth) THEN storage ELSE [k \in DOMAIN storage |-> null]

\* the storage after apiRequest left the part it works on as auth
withAuth(storage, auth) ==
    [storage EXCEPT ![accessTokenKey] = IF hasToken(auth) THEN @ ELSE null]

\* a handler not running
IdleRun ==
    [pc |-> "idle", action |-> "", siteUrl |-> "", forceRefresh |-> FALSE,
     comparisonList |-> <<>>, fetches |-> 0, response |-> null]

(***************************************************************************)
(* SpecWorker: messages of the popup and the daily background run, the     *)
(* clock and the cache                                                     *)
(***************************************************************************)
MaxTicks == 1

\* the popup's messages and the alarm's runBackgroundAnalysis
RunIds == {"popup", "alarm"}

\* what getPagePerformanceComparison may return for a site
WorkerDatasets ==
    {<<[page |-> <<"https://example.com/a">>, current |-> Snapshot(0, 52, 8),
        previous |-> Snapshot(50, 500, 10), isNew |-> FALSE]>>,
     <<[page |-> <<"https://example.com/a">>, current |-> Snapshot(50, 500, 10),
        previous |-> Snapshot(50, 500, 10), isNew |-> FALSE]>>}

\* responses of the reporting API to the requests of one fetch
WorkerResponses ==
    {[status |-> 200, message |-> ""],
     [status |-> 401, message |-> "Invalid Credentials"],
     [status |-> 500, message |-> ""]}

\* clock advances, in milliseconds
TickVals == {maxAge - 1, maxAge}

\* the storage of a signed-in user before any analysis
SignedInStorage ==
    [k \in StorageKeys |->
        IF k = accessTokenKey THEN [value |-> "ya29.token"]
        ELSE IF k = userInfoKey THEN [value |-> "user@example.com"]
        ELSE null]

InitWorker ==
    /\ CoreIdle
    /\ VelIdle
    /\ CsvIdle
    /\ FetchIdle
    /\ PopupIdle
    /\ pc = "worker"
    /\ cacheStorage = SignedInStorage
    /\ now = 0
    /\ ticks = 0
    /\ runs = [r \in RunIds |-> IdleRun]

\* chrome.runtime.onMessage: ANALYZE_SITE or GET_CACHED_ANALYSIS from the
\* popup; runBackgroundAnalysis calls handleAnalyzeSite with forceRefresh: true
ReceiveMessage(r) ==
    /\ runs[r].pc \in {"idle", "done"}
    /\ \E action \in {"ANALYZE_SITE", "GET_CACHED_ANALYSIS"}, siteUrl \in Sites,
          forceRefresh \in BOOLEAN :
          /\ r = "alarm" => (action = "ANALYZE_SITE" /\ forceRefresh)
          /\ action = "GET_CACHED_ANALYSIS" => ~forceRefresh
          /\ runs' = [runs EXCEPT ![r] =
                         [IdleRun EXCEPT
                             !.pc = IF action = "GET_CACHED_ANALYSIS" THEN "getCached"
                                    ELSE IF forceRefresh THEN "fetch"
                                    ELSE "checkCache",
                             !.action = action,
                             !.siteUrl = siteUrl,
                             !.forceRefresh = forceRefresh]]
    /\ UNCHANGED <<cacheStorage, now, ticks>>
    /\ UNCHANGED <<diagVars, runVars, pc, velVars, csvVars, fetchVars, popupVars>>

\* handleMessage's case 'GET_CACHED_ANALYSIS'
GetCached(r) ==
    /\ runs[r].pc = "getCached"
    /\ runs' = [runs EXCEPT ![r].pc = "done",
                            ![r].response =
                                getCachedAnalysis(cacheStorage, runs[r].siteUrl, now)]
    /\ UNCHANGED <<cacheStorage, now, ticks>>
    /\ UNCHANGED <<diagVars, runVars, pc, velVars, csvVars, fetchVars, popupVars>>

\* handleAnalyzeSite: if (!forceRefresh) { cached = await getCachedAnalysis;
\* if (cached.success && cached.cached) return cached }
CheckCache(r) ==
    /\ runs[r].pc = "checkCache"
    /\ LET cached == getCachedAnalysis(cacheStorage, runs[r].siteUrl, now)
       IN  IF cached.success /\ cached.cached
           THEN runs' = [runs EXCEPT ![r].pc = "done", ![r].response = cached]
           ELSE runs' = [runs EXCEPT ![r].pc = "fetch"]
    /\ UNCHANGED <<cacheStorage, now, ticks>>
    /\ UNCHANGED <<diagVars, runVars, pc, velVars, csvVars, fetchVars, popupVars>>

\* await getPagePerformanceComparison(...): apiRequest throws without a
\* stored token; otherwise the API answers, the list is returned on 200 and
\* apiRequest throws on any other status; the catch block of
\* handleAnalyzeSite returns { success: false, error }
FetchReturn(r) ==
    /\ runs[r].pc = "fetch"
    /\ IF ~hasToken(authView(cacheStorage))
       THEN /\ runs' = [runs EXCEPT ![r].pc = "done",
                                    ![r].fetches = @ + 1,
                                    ![r].response = errorResponse("Not authenticated")]
            /\ UNCHANGED cacheStorage
       ELSE \E response \in WorkerResponses :
               LET out == apiRequestOutcome(authView(cacheStorage), response)
               IN  /\ cacheStorage' = withAuth(cacheStorage, out.storage)
                   /\ IF out.threw
                      THEN runs' = [runs EXCEPT ![r].pc = "done",
                                                ![r].fetches = @ + 1,
                                                ![r].response = errorResponse(out.error)]
                      ELSE \E list \in WorkerDatasets :
                              runs' = [runs EXCEPT ![r].pc = "store",
                                                   ![r].comparisonList = list,
                                                   ![r].fetches = @ + 1]
    /\ UNCHANGED <<now, ticks>>
    /\ UNCHANGED <<diagVars, runVars, pc, velVars, csvVars, fetchVars, popupVars>>

\* analyzeContentDecay, calculateSiteSummary, chrome.storage.local.set and
\* the return of the fresh result; a TypeError of the analyzer goes to the
\* catch block
StoreAnalysis(r) ==
    /\ runs[r].pc = "store"
    /\ IF ThrowsTypeError(runs[r].comparisonList)
       THEN /\ runs' = [runs EXCEPT ![r].pc = "done",
                                    ![r].response = errorResponse("TypeError")]
            /\ UNCHANGED cacheStorage
       ELSE LET entry == cacheEntry(now, runs[r].comparisonList)
            IN  /\ cacheStorage' =
                      [cacheStorage EXCEPT ![cacheKey(runs[r].siteUrl)] = entry]
                /\ runs' = [runs EXCEPT ![r].pc = "done",
                                        ![r].response = freshResponse(entry)]
    /\ UNCHANGED <<now, ticks>>
    /\ UNCHANGED <<diagVars, runVars, pc, velVars, csvVars, fetchVars, popupVars>>

\* time passes
Tick ==
    /\ ticks < MaxTicks
    /\ \E d \in TickVals : now' = now + d
    /\ ticks' = ticks + 1
    /\ UNCHANGED <<cacheStorage, runs>>
    /\ UNCHANGED <<diagVars, runVars, pc, velVars, csvVars, fetchVars, popupVars>>

NextWorker ==
    \/ \E r \in RunIds : ReceiveMessage(r)
    \/ \E r \in RunIds : GetCached(r)
    \/ \E r \in RunIds : CheckCache(r)
    \/ \E r \in RunIds : FetchReturn(r)
    \/ \E r \in RunIds : StoreAnalysis(r)
    \/ Tick

SpecWorker == InitWorker /\ [][NextWorker]_vars

(***************************************************************************)
(* Claim about the cache window                                            *)
(***************************************************************************)
\* the entry stored for the site of run r is present and younger than 12 hours
EntryWithinWindow(r) ==
    /\ cacheStorage[cacheKey(runs[r].siteUrl)] # null
    /\ now - cacheStorage[cacheKey(runs[r].siteUrl)].timestamp < 43200000

\* C15: cached results are valid for a fixed 12-hour window: getCachedAnalysis
\* answers cached:true exactly when an entry for the site exists and its age
\* is below 12 hours; ANALYZE_SITE without forceRefresh then returns that
\* entry without calling the fetch layer; with forceRefresh, or with a
\* missing or expired entry, it goes to the fetch layer, and the fresh
\* analysis replaces the entry with one stamped with the current time.
C15_CacheWindow ==
    [][\A r \in RunIds :
          /\ (runs[r].pc = "getCached" /\ runs'[r].pc = "done")
                => (runs'[r].response.cached <=> EntryWithinWindow(r))
          /\ (runs[r].pc = "checkCache" /\ runs'[r].pc # "checkCache")
                => IF EntryWithinWindow(r)
                   THEN /\ runs'[r].pc = "done"
                        /\ runs'[r].response.cached
                        /\ runs'[r].response.summary
                              = cacheStorage[cacheKey(runs[r].siteUrl)].summary
                        /\ runs'[r].response.pages
                              = cacheStorage[cacheKey(runs[r].siteUrl)].pages
                        /\ runs'[r].fetches = 0
                        /\ cacheStorage' = cacheStorage
                   ELSE runs'[r].pc = "fetch"
          /\ (runs[r].pc \in {"idle", "done"} /\ runs'[r].pc \notin {"idle", "done"}
                /\ runs'[r].action = "ANALYZE_SITE" /\ runs'[r].forceRefresh)
                => runs'[r].pc = "fetch"
          /\ (runs[r].pc = "store" /\ runs'[r].pc = "done")
                => /\ runs'[r].fetches = 1
                   /\ ~runs'[r].response.cached
                   /\ cacheStorage'[cacheKey(runs[r].siteUrl)].timestamp = now
                   /\ cacheStorage'[cacheKey(runs[r].siteUrl)].pages = runs'[r].response.pages
                   /\ cacheStorage'[cacheKey(runs[r].siteUrl)].summary = runs'[r].response.summary
      ]_vars

\* an ANALYZE_SITE without forceRefresh was answered, with no fetch, from an
\* entry one millisecond short of 12 hours old
C15_Witness ==
    \E r \in RunIds :
        /\ runs[r].pc = "done"
        /\ runs[r].action = "ANALYZE_SITE"
        /\ ~runs[r].forceRefresh
        /\ runs[r].fetches = 0
        /\ runs[r].response.cached
        /\ now - cacheStorage[cacheKey(runs[r].siteUrl)].timestamp = 43200000 - 1

(***************************************************************************)
(* Claims about the two worked examples                                    *)
(***************************************************************************)
\* C21: for current = {clicks 5, impressions 5000, ctr 0.1%, position 8},
\* previous = {clicks 200, impressions 6000, ctr 3.3%, position 6} and no
\* recent snapshot, the diagnosis has changes.impressions = -16.7,
\* changes.clicks = -97.5, changes.position = -2, decayClass zombie,
\* severity warning and score 995 (changes are kept in tenths).
C21_ExampleZombie ==
    (/\ decay # null
     /\ page.current = Snapshot(5, 5000, 8)
     /\ page.previous = Snapshot(200, 6000, 6)
     /\ page.recent = null)
        => /\ decay.changes.impressions = -167
           /\ decay.changes.clicks = -975
           /\ decay.changes.position = -20
           /\ decay.decayClass = "zombie"
           /\ decay.severity = "warning"
           /\ decay.score = 995

\* the first example has been diagnosed
C21_Witness ==
    /\ decay # null
    /\ page.current = Snapshot(5, 5000, 8)
    /\ page.previous = Snapshot(200, 6000, 6)
    /\ page.recent = null
    /\ decay.score = 995

\* C22: for current = {clicks 50, impressions 500, position 10}, previous =
\* {clicks 300, impressions 2000, position 5} and recent = {clicks 20,
\* impressions 150}, the weekly daily rate (20/7) exceeds the monthly daily
\* rate (50/30), the velocity change is positive and isCliff is false; the
\* page falls through to rank_rot (positionDelta = -5), severity critical.
C22_ExampleRankRot ==
    (/\ decay # null
     /\ page.current = Snapshot(50, 500, 10)
     /\ page.previous = Snapshot(300, 2000, 5)
     /\ page.recent # null
     /\ page.recent.clicks = 20
     /\ page.recent.impressions = 150)
        => /\ QLess(Q(50, 30), Q(20, 7))
           /\ QLess(QInt(0), calculatePercentChange(Q(20, 7), Q(50, 30)))
           /\ ~diagLocals.isCliff
           /\ diagLocals.changes.position = QInt(-5)
           /\ decay.changes.position = -50
           /\ decay.decayClass = "rank_rot"
           /\ decay.severity = "critical"

\* the second example has been diagnosed
C22_Witness ==
    /\ decay # null
    /\ page.current = Snapshot(50, 500, 10)
    /\ page.previous = Snapshot(300, 2000, 5)
    /\ page.recent # null
    /\ page.recent.clicks = 20
    /\ page.recent.impressions = 150
    /\ decay.decayClass = "rank_rot"

(***************************************************************************)
(* Claim about the severity counts                                         *)
(***************************************************************************)
\* the counts of sm partition the list pages and its health score is a
\* percentage
CountsPartition(pages, sm) ==
    /\ \A i \in 1..Len(pages) :
          Cardinality({sev \in Severities : pages[i].decay.severity = sev}) = 1
    /\ sm.criticalCount = CountSeverity(pages, "critical")
    /\ sm.warningCount = CountSeverity(pages, "warning")
    /\ sm.monitoringCount = CountSeverity(pages, "monitoring")
    /\ sm.healthyCount = CountSeverity(pages, "healthy")
    /\ sm.criticalCount + sm.warningCount + sm.monitoringCount + sm.healthyCount
          = sm.totalPages
    /\ sm.totalPages = Len(pages)
    /\ sm.healthScore \in 0..100

\* C29: the four severity counts of a site summary partition the analyzed
\* pages: criticalCount + warningCount + monitoringCount + healthyCount =
\* totalPages = the number of pages passed in, each page counted in exactly
\* one bucket, and healthScore is an integer in 0..100.
C29_CountsPartition ==
    /\ pc = "summarized" => CountsPartition(analyzed, summary)
    /\ pc = "basicSummarized" => CountsPartition(basicAnalyzed, basicSummary)

\* a summary of two pages that fall into two different buckets, one of them
\* critical
C29_Witness ==
    /\ pc = "basicSummarized"
    /\ basicSummary.totalPages = 2
    /\ basicSummary.criticalCount = 1
    /\ basicSummary.healthyCount = 1

(***************************************************************************)
(* SpecWeights: analyzeContentDecay of part_001 called with an options     *)
(* object that may carry weights                                           *)
(***************************************************************************)
\* the default of options.weights: { clicks: 0.4, impressions: 0.3, ctr: 0.2,
\* position: 2.0 }
defaultWeights ==
    [clicks |-> Q(2, 5), impressions |-> Q(3, 10), ctr |-> Q(1, 5), position |-> QInt(2)]

\* const weights = options.weights || { ... }
weightsOf(opts) == IF opts.weights # null THEN opts.weights ELSE defaultWeights

\* a diagnosis whose score is scaled by the configured click weight
diagnoseDecayWith_weighted(p, weights) ==
    LET d == diagnoseDecay(p)
    IN  [d EXCEPT !.score = MathRound(QMul(QInt(d.score), QMul(weights.clicks, Q(5, 2))))]

\* diagnoseDecay(page, weights): the body never reads weights
diagnoseDecayWith(p, weights) == diagnoseDecay(p)

\* .map(page => ({ ...page, decay: diagnoseDecay(page, weights) }))
RECURSIVE MapDiagnoseWith(_, _)
MapDiagnoseWith(pages, weights) ==
    IF pages = <<>> THEN <<>>
    ELSE <<WithDecay(Head(pages), diagnoseDecayWith(Head(pages), weights))>>
            \o MapDiagnoseWith(Tail(pages), weights)

\* analyzeContentDecay(comparisonResult, options).pages
analyzeContentDecayWith(pages, opts) ==
    SortByScoreDesc(MapDiagnoseWith(SelectSeq(pages, HasPrevious), weightsOf(opts)))

\* options objects: no weights, the defaults spelled out, other weights
WeightOptions ==
    {[weights |-> null],
     [weights |-> defaultWeights],
     [weights |-> [clicks |-> Q(4, 5), impressions |-> Q(1, 10), ctr |-> Q(1, 10),
                   position |-> QInt(1)]]}

InitWeights ==
    /\ page = null /\ diagLocals = null /\ decay = null /\ basicDecay = null
    /\ currentPeriod = <<>> /\ previousPeriod = <<>> /\ recentPeriod = <<>>
    /\ options \in WeightOptions
    /\ \E n \in 0..MaxPages :
          \E cs \in [1..n -> RunCurrent], ps \in [1..n -> RunPrevious \cup {null}] :
             comparison = [i \in 1..n |-> ListRecord(i, cs[i], ps[i])]
    /\ basicComparison = <<>>
    /\ analyzed = <<>> /\ basicAnalyzed = <<>>
    /\ summary = null /\ basicSummary = null
    /\ pc = "compared"
    /\ ExtIdle

\* analyzeContentDecay(comparison, options)
AnalyzeWith ==
    /\ pc = "compared"
    /\ analyzed' = analyzeContentDecayWith(comparison, options)
    /\ pc' = "analyzed"
    /\ UNCHANGED <<currentPeriod, previousPeriod, recentPeriod, options,
                   comparison, basicComparison, basicAnalyzed, summary, basicSummary>>
    /\ UNCHANGED diagVars
    /\ UNCHANGED extVars

NextWeights == AnalyzeWith

SpecWeights == InitWeights /\ [][NextWeights]_vars

\* C30: in the classification analyzer the diagnosis does not depend on
\* options.weights: for any two weight configurations and the same page
\* list, analyzeContentDecay returns identical score, decayClass, severity,
\* changes, signals and recommendations, and the same page order.
C30_WeightsIgnored ==
    pc = "analyzed" =>
        \A o \in WeightOptions :
            LET other == analyzeContentDecayWith(comparison, o)
            IN  /\ Len(other) = Len(analyzed)
                /\ \A i \in 1..Len(analyzed) :
                      /\ other[i].page = analyzed[i].page
                      /\ other[i].decay.score = analyzed[i].decay.score
                      /\ other[i].decay.decayClass = analyzed[i].decay.decayClass
                      /\ other[i].decay.severity = analyzed[i].decay.severity
                      /\ other[i].decay.changes = analyzed[i].decay.changes
                      /\ other[i].decay.signals = analyzed[i].decay.signals
                      /\ other[i].decay.recommendation = analyzed[i].decay.recommendation

\* two pages of different positive scores were analyzed under weights that
\* are not the defaults
C30_Witness ==
    /\ pc = "analyzed"
    /\ options.weights # null
    /\ options.weights # defaultWeights
    /\ Len(analyzed) = 2
    /\ analyzed[1].decay.score > analyzed[2].decay.score
    /\ analyzed[2].decay.score > 0

(***************************************************************************)
(* Claims about analyses that run at the same time                         *)
(***************************************************************************)
\* handleAnalyzeSite is running for r
Analyzing(r) ==
    runs[r].action = "ANALYZE_SITE" /\ runs[r].pc \in {"checkCache", "fetch", "store"}

\* r and o are two running analyses of different sites
ParallelOnDifferentSites(r, o) ==
    r # o /\ Analyzing(r) /\ Analyzing(o) /\ runs[r].siteUrl # runs[o].siteUrl

\* the storage with the analysis entries of all sites but siteUrl taken away
OnlyEntryOf(storage, siteUrl) ==
    [k \in StorageKeys |->
        IF k \in {cacheKey(s) : s \in Sites \ {siteUrl}} THEN null ELSE storage[k]]

\* this step of r reads the cache as if there were no other site's entry
ReadsOwnEntryOnly(r) ==
    (runs[r].pc = "checkCache" /\ runs'[r].pc # "checkCache")
        => LET alone == getCachedAnalysis(OnlyEntryOf(cacheStorage, runs[r].siteUrl),
                                          runs[r].siteUrl, now)
           IN  IF alone.success /\ alone.cached
               THEN runs'[r].pc = "done" /\ runs'[r].response = alone
               ELSE runs'[r].pc = "fetch"

\* this step of r returns and stores, under the key of its own site and
\* nowhere else, the analysis of its own list
StoresOwnResult(r) ==
    (runs[r].pc = "store" /\ runs'[r].pc = "done")
        => LET analyzedPages == basicAnalyzeContentDecay(runs[r].comparisonList)
               alone == [timestamp |-> now,
                         summary   |-> basicCalculateSiteSummary(analyzedPages),
                         pages     |-> analyzedPages]
           IN  /\ runs'[r].response.success
               /\ runs'[r].response.pages = alone.pages
               /\ runs'[r].response.summary = alone.summary
               /\ cacheStorage'[cacheKey(runs[r].siteUrl)] = alone
               /\ \A k \in StorageKeys \ {cacheKey(runs[r].siteUrl)} :
                     cacheStorage'[k] = cacheStorage[k]

\* a step of o leaves the entry of r's site as it is
EntryUndisturbed(r, o) ==
    (ParallelOnDifferentSites(r, o) /\ runs'[o] # runs[o])
        => cacheStorage'[cacheKey(runs[r].siteUrl)]
              = cacheStorage[cacheKey(runs[r].siteUrl)]

\* a step of o leaves the access token as it is while r has its fetch ahead
TokenUndisturbed(r, o) ==
    (/\ ParallelOnDifferentSites(r, o)
     /\ runs'[o] # runs[o]
     /\ runs[r].pc \in {"checkCache", "fetch"})
        => cacheStorage'[accessTokenKey] = cacheStorage[accessTokenKey]

\* C23 as stated: for any interleaving of two handleAnalyzeSite runs on
\* different sites, each run returns, and stores under its own site's cache
\* key, exactly the result it would produce when run alone, and neither run
\* reads or overwrites the other site's entry. Run alone, nothing a run
\* reads (its site's entry, the access token) is changed by anyone else.
C23_ParallelRunsAsAlone ==
    [][\A r, o \in RunIds :
          /\ ReadsOwnEntryOnly(r)
          /\ StoresOwnResult(r)
          /\ EntryUndisturbed(r, o)
          /\ TokenUndisturbed(r, o)
      ]_vars

\* C23 amended: each run reads only its own site's entry and returns, and
\* stores under its own site's cache key, exactly the analysis of the list
\* its own fetch returned; no step of the other run changes its site's entry.
\* (The fetch itself shares the access token with the other run.)
C23_ParallelRunsOwnEntries ==
    [][\A r, o \in RunIds :
          /\ ReadsOwnEntryOnly(r)
          /\ StoresOwnResult(r)
          /\ EntryUndisturbed(r, o)
      ]_vars

\* the popup's analysis of one site has stored its result while the
\* background run's analysis of the other site is about to store its own
C23_Witness ==
    /\ runs["popup"].action = "ANALYZE_SITE"
    /\ runs["popup"].pc = "done"
    /\ runs["popup"].fetches = 1
    /\ runs["popup"].response.success
    /\ runs["alarm"].pc = "store"
    /\ runs["alarm"].siteUrl # runs["popup"].siteUrl
    /\ runs["alarm"].comparisonList # runs["popup"].comparisonList
    /\ cacheStorage[cacheKey(runs["popup"].siteUrl)] # null
    /\ cacheStorage[cacheKey(runs["popup"].siteUrl)].pages = runs["popup"].response.pages
    /\ cacheStorage[cacheKey(runs["alarm"].siteUrl)] = null

(***************************************************************************)
(* Claims about what reaches the cache                                     *)
(***************************************************************************)
\* this step ends handleAnalyzeSite of r with { success: false, error }
AnalysisFails(r) ==
    /\ runs[r].action = "ANALYZE_SITE"
    /\ runs[r].pc \in {"checkCache", "fetch", "store"}
    /\ runs'[r].pc = "done"
    /\ ~runs'[r].response.success

\* this step writes the entry of siteUrl as the last act of a run that has
\* the analysis and the summary of its list
WrittenByFinishedAnalysis(siteUrl) ==
    \E r \in RunIds :
        /\ runs[r].pc = "store" /\ runs'[r].pc = "done"
        /\ runs[r].siteUrl = siteUrl
        /\ runs'[r].response.success
        /\ LET entry == cacheStorage'[cacheKey(siteUrl)]
           IN  /\ entry # null
               /\ entry.pages = basicAnalyzeContentDecay(runs[r].comparisonList)
               /\ entry.summary = basicCalculateSiteSummary(entry.pages)
               /\ entry.pages = runs'[r].response.pages
               /\ entry.summary = runs'[r].response.summary

\* C25: a failed analysis leaves the cache unchanged: when a step of
\* handleAnalyzeSite throws, the call returns {success: false, error} and
\* the site's cache entry (if any) keeps its timestamp, summary and pages;
\* a cache entry is written only after both the analysis and the summary
\* were computed.
C25_FailureLeavesCache ==
    [][/\ \A r \in RunIds :
             AnalysisFails(r)
                => /\ DOMAIN runs'[r].response = {"success", "error"}
                   /\ \A s \in Sites :
                         cacheStorage'[cacheKey(s)] = cacheStorage[cacheKey(s)]
       /\ \A s \in Sites :
             cacheStorage'[cacheKey(s)] # cacheStorage[cacheKey(s)]
                => WrittenByFinishedAnalysis(s)
      ]_vars

\* a forced analysis failed on a 401 and the entry of its site, written by
\* an earlier analysis, is still there
C25_Witness ==
    \E r \in RunIds :
        /\ runs[r].pc = "done"
        /\ runs[r].action = "ANALYZE_SITE"
        /\ runs[r].forceRefresh
        /\ ~runs[r].response.success
        /\ runs[r].response.error = "Token expired. Please sign in again."
        /\ cacheStorage[cacheKey(runs[r].siteUrl)] # null
        /\ cacheStorage[accessTokenKey] = null

\* every stored entry is the work of one run
EntriesConsistent ==
    \A s \in Sites :
        LET entry == cacheStorage[cacheKey(s)]
        IN  entry # null
               => /\ entry.summary = basicCalculateSiteSummary(entry.pages)
                  /\ \E list \in WorkerDatasets :
                        entry.pages = basicAnalyzeContentDecay(list)
                  /\ entry.timestamp <= now

\* C27: every cache entry is internally consistent in every reachable state,
\* also when two analyses of the same site (a popup request and the
\* background run) interleave: the stored summary is calculateSiteSummary of
\* the stored pages, and the stored timestamp is the time of the run that
\* produced both; the entry is never a mix of two runs.
C27_EntryConsistent ==
    /\ []EntriesConsistent
    /\ [][\A s \in Sites :
             cacheStorage'[cacheKey(s)] # cacheStorage[cacheKey(s)]
                => \E r \in RunIds :
                      /\ runs[r].pc = "store" /\ runs[r].siteUrl = s
                      /\ runs'[r].pc = "done"
                      /\ LET pages == basicAnalyzeContentDecay(runs[r].comparisonList)
                         IN  cacheStorage'[cacheKey(s)] =
                                [timestamp |-> now,
                                 summary   |-> basicCalculateSiteSummary(pages),
                                 pages     |-> pages]
         ]_vars

\* the popup and the background run analyzed the same site with different
\* lists; the background run stored last and its whole entry is in the cache
C27_Witness ==
    /\ runs["popup"].pc = "done" /\ runs["alarm"].pc = "done"
    /\ runs["popup"].action = "ANALYZE_SITE"
    /\ runs["popup"].siteUrl = runs["alarm"].siteUrl
    /\ runs["popup"].fetches = 1
    /\ runs["popup"].response.success /\ runs["alarm"].response.success
    /\ runs["popup"].response.pages # runs["alarm"].response.pages
    /\ runs["popup"].response.summary # runs["alarm"].response.summary
    /\ cacheStorage[cacheKey(runs["alarm"].siteUrl)].pages = runs["alarm"].response.pages
    /\ cacheStorage[cacheKey(runs["alarm"].siteUrl)].summary = runs["alarm"].response.summary

(***************************************************************************)
(* The other messages of handleMessage: GET_SITES, CHECK_AUTH, EXPORT_CSV, *)
(* CLEAR_CACHE, an action of no case, and a message that is null           *)
(***************************************************************************)
\* every stored key taken for an analysis key
isAnalysisKey_any(k) == TRUE

\* k.startsWith('analysis_')
isAnalysisKey(k) == k[1] = "analysis_"

\* handleClearCache(siteUrl): the storage it leaves; "" is a message
\* without siteUrl
handleClearCache(storage, siteUrl) ==
    IF siteUrl # ""
    THEN [storage EXCEPT ![cacheKey(siteUrl)] = null]
    ELSE [k \in DOMAIN storage |->
             IF storage[k] # null /\ isAnalysisKey(k) THEN null ELSE storage[k]]

\* handleExportCSV(siteUrl) at the time given
handleExportCSV(storage, siteUrl, time) ==
    LET cached == getCachedAnalysis(storage, siteUrl, time)
    IN  IF ~cached.success
        THEN errorResponse("No analysis data available. Run analysis first.")
        ELSE [success |-> TRUE, csv |-> basicExportToCSV(cached.pages)]

\* an unknown action left without an answer
defaultResponse_none(action) == null

\* default: return { success: false, error: 'Unknown action: ' + message.action }
defaultResponse(action) == errorResponse("Unknown action: " \o action)

\* sites.map(site => ({ siteUrl, permissionLevel })) of the data.siteEntry
\* the API returns
siteEntries ==
    <<[siteUrl |-> "sc-domain:a.example", permissionLevel |-> "siteOwner"],
      [siteUrl |-> "https://b.example/", permissionLevel |-> "siteFullUser"]>>

\* the popup sends one of the other messages
ReceiveOther(r) ==
    /\ r = "popup"
    /\ runs[r].pc \in {"idle", "done"}
    /\ \E action \in {"GET_SITES", "CHECK_AUTH", "EXPORT_CSV", "CLEAR_CACHE",
                      "PING", "null"},
          siteUrl \in Sites \cup {""} :
          /\ action \in {"GET_SITES", "CHECK_AUTH", "PING", "null"} => siteUrl = ""
          /\ action = "EXPORT_CSV" => siteUrl # ""
          /\ runs' = [runs EXCEPT ![r] =
                         [IdleRun EXCEPT
                             !.pc = IF action = "GET_SITES" THEN "getSites"
                                    ELSE IF action = "CHECK_AUTH" THEN "checkAuth"
                                    ELSE IF action = "EXPORT_CSV" THEN "exportCsv"
                                    ELSE IF action = "CLEAR_CACHE" THEN "clearCache"
                                    ELSE IF action = "PING" THEN "default"
                                    ELSE "rejected",
                             !.action = action,
                             !.siteUrl = siteUrl]]
    /\ UNCHANGED <<cacheStorage, now, ticks>>
    /\ UNCHANGED <<diagVars, runVars, pc, velVars, csvVars, fetchVars, popupVars>>

\* handleGetSites: getSites() is one apiRequest
GetSites(r) ==
    /\ runs[r].pc = "getSites"
    /\ IF ~hasToken(authView(cacheStorage))
       THEN /\ runs' = [runs EXCEPT ![r].pc = "done",
                                    ![r].response = errorResponse("Not authenticated")]
            /\ UNCHANGED cacheStorage
       ELSE \E response \in WorkerResponses :
               LET out == apiRequestOutcome(authView(cacheStorage), response)
               IN  /\ cacheStorage' = withAuth(cacheStorage, out.storage)
                   /\ runs' = [runs EXCEPT
                                  ![r].pc = "done",
                                  ![r].response =
                                      IF out.threw THEN errorResponse(out.error)
                                      ELSE [success |-> TRUE, sites |-> siteEntries]]
    /\ UNCHANGED <<now, ticks>>
    /\ UNCHANGED <<diagVars, runVars, pc, velVars, csvVars, fetchVars, popupVars>>

\* case 'CHECK_AUTH': isAuthenticated() asks chrome.identity for a token and
\* getAccessToken stores the one it gets
CheckAuth(r) ==
    /\ runs[r].pc = "checkAuth"
    /\ \E token \in {null, [value |-> "ya29.token"]} :
          /\ cacheStorage' = IF token # null
                             THEN [cacheStorage EXCEPT ![accessTokenKey] = token]
                             ELSE cacheStorage
          /\ runs' = [runs EXCEPT ![r].pc = "done",
                                  ![r].response = [success |-> TRUE,
                                                   authenticated |-> token # null]]
    /\ UNCHANGED <<now, ticks>>
    /\ UNCHANGED <<diagVars, runVars, pc, velVars, csvVars, fetchVars, popupVars>>

\* case 'EXPORT_CSV'
ExportCsv(r) ==
    /\ runs[r].pc = "exportCsv"
    /\ runs' = [runs EXCEPT ![r].pc = "done",
                            ![r].response =
                                handleExportCSV(cacheStorage, runs[r].siteUrl, now)]
    /\ UNCHANGED <<cacheStorage, now, ticks>>
    /\ UNCHANGED <<diagVars, runVars, pc, velVars, csvVars, fetchVars, popupVars>>

\* case 'CLEAR_CACHE'
ClearCache(r) ==
    /\ runs[r].pc = "clearCache"
    /\ cacheStorage' = handleClearCache(cacheStorage, runs[r].siteUrl)
    /\ runs' = [runs EXCEPT ![r].pc = "done", ![r].response = [success |-> TRUE]]
    /\ UNCHANGED <<now, ticks>>
    /\ UNCHANGED <<diagVars, runVars, pc, velVars, csvVars, fetchVars, popupVars>>

\* the default case of the switch
UnknownAction(r) ==
    /\ runs[r].pc = "default"
    /\ runs' = [runs EXCEPT ![r].pc = "done",
                            ![r].response = defaultResponse(runs[r].action)]
    /\ UNCHANGED <<cacheStorage, now, ticks>>
    /\ UNCHANGED <<diagVars, runVars, pc, velVars, csvVars, fetchVars, popupVars>>

\* handleMessage(null) rejects on message.action and the listener's
\* .catch(error => sendResponse({ success: false, error: error.message }))
ListenerCatch(r) ==
    /\ runs[r].pc = "rejected"
    /\ runs' = [runs EXCEPT ![r].pc = "done",
                            ![r].response = errorResponse("TypeError")]
    /\ UNCHANGED <<cacheStorage, now, ticks>>
    /\ UNCHANGED <<diagVars, runVars, pc, velVars, csvVars, fetchVars, popupVars>>

\* the steps that follow the receipt of a message of r
HandlerStep(r) ==
    \/ GetCached(r)
    \/ CheckCache(r)
    \/ FetchReturn(r)
    \/ StoreAnalysis(r)
    \/ GetSites(r)
    \/ CheckAuth(r)
    \/ ExportCsv(r)
    \/ ClearCache(r)
    \/ UnknownAction(r)
    \/ ListenerCatch(r)

NextMessages ==
    \/ \E r \in RunIds : ReceiveMessage(r)
    \/ \E r \in RunIds : ReceiveOther(r)
    \/ \E r \in RunIds : HandlerStep(r)

\* SpecMessages: all messages, the clock standing still
SpecMessages == InitWorker /\ [][NextMessages]_vars

\* the continuations that read or clear the storage, ask the API or
\* chrome.identity, or only build an answer
LightStep(r) ==
    \/ GetCached(r)
    \/ CheckCache(r)
    \/ FetchReturn(r)
    \/ GetSites(r)
    \/ CheckAuth(r)
    \/ ClearCache(r)
    \/ UnknownAction(r)
    \/ ListenerCatch(r)

\* the continuations that analyse a list or write a CSV file
HeavyStep(r) == StoreAnalysis(r) \/ ExportCsv(r)

\* ENABLED <<HeavyStep(r)>>_vars: both steps need nothing but their place in
\* the handler, and both leave it
HeavyPending(r) == runs[r].pc \in {"store", "exportCsv"}

\* WF_vars(HeavyStep(r)) with its ENABLED written as HeavyPending(r)
HeavyStepFair(r) == []<>(~HeavyPending(r)) \/ []<><<HeavyStep(r)>>_vars

\* every continuation of a handler is run by the event loop, and every
\* request to the API or to chrome.identity is answered
SpecMessagesFair ==
    SpecMessages /\ \A r \in RunIds : (WF_vars(LightStep(r)) /\ HeavyStepFair(r))

(***************************************************************************)
(* Claims about the messages                                               *)
(***************************************************************************)
\* a message of r is being handled
InFlight(r) == runs[r].pc \notin {"idle", "done"}

\* the cases of the switch in handleMessage
KnownActions ==
    {"GET_SITES", "ANALYZE_SITE", "GET_CACHED_ANALYSIS", "CHECK_AUTH",
     "EXPORT_CSV", "CLEAR_CACHE"}

\* this step answers the message of r, for the first time, with an object
\* of the kind its action calls for
AnswersOnce(r) ==
    (InFlight(r) /\ runs'[r].pc = "done")
        => /\ runs[r].response = null
           /\ runs'[r].response # null
           /\ "success" \in DOMAIN runs'[r].response
           /\ runs[r].action \notin KnownActions \cup {"null"}
                 => runs'[r].response =
                       [success |-> FALSE,
                        error |-> "Unknown action: " \o runs[r].action]
           /\ runs[r].action = "null"
                 => /\ ~runs'[r].response.success
                    /\ DOMAIN runs'[r].response = {"success", "error"}
           /\ runs[r].action \in KnownActions
                 => \/ runs'[r].response.success
                    \/ DOMAIN runs'[r].response = {"success", "error"}
                    \/ runs'[r].response = [success |-> FALSE, cached |-> FALSE]

\* this step neither answers a message of r that is still handled nor
\* answers an answered one again
NoOtherAnswer(r) ==
    /\ (InFlight(r) /\ runs'[r].pc # "done") => runs'[r].response = null
    /\ (runs[r].pc = "done" /\ runs'[r].pc = "done")
          => runs'[r].response = runs[r].response

\* C24: every message received by the service worker is answered exactly
\* once: a known action gets its handler's result, an unknown action gets
\* {success: false, error: 'Unknown action: <action>'}, a handler that throws
\* gets {success: false, error: <message>}; no message is left without a
\* response and none is answered twice.
C24_AnsweredExactlyOnce ==
    /\ [][\A r \in RunIds : AnswersOnce(r) /\ NoOtherAnswer(r)]_vars
    /\ \A r \in RunIds : InFlight(r) ~> (runs[r].pc = "done")

\* an unknown action has been answered while an analysis is under way
C24_Witness ==
    /\ runs["popup"].pc = "done"
    /\ runs["popup"].action = "PING"
    /\ runs["popup"].response.error = "Unknown action: PING"
    /\ runs["alarm"].pc = "store"

\* this step of CLEAR_CACHE removes what the message names and nothing else
ClearsOnlyNamed(r) ==
    (runs[r].pc = "clearCache" /\ runs'[r].pc = "done")
        => /\ runs'[r].response = [success |-> TRUE]
           /\ cacheStorage'[accessTokenKey] = cacheStorage[accessTokenKey]
           /\ cacheStorage'[userInfoKey] = cacheStorage[userInfoKey]
           /\ \A s \in Sites :
                 IF runs[r].siteUrl \in {"", s}
                 THEN cacheStorage'[cacheKey(s)] = null
                 ELSE cacheStorage'[cacheKey(s)] = cacheStorage[cacheKey(s)]

\* this step of EXPORT_CSV finds no entry and says so
ExportNeedsEntry(r) ==
    (/\ runs[r].pc = "exportCsv" /\ runs'[r].pc = "done"
     /\ cacheStorage[cacheKey(runs[r].siteUrl)] = null)
        => runs'[r].response =
              [success |-> FALSE,
               error |-> "No analysis data available. Run analysis first."]

\* an entry appears only when an analysis of its site succeeds
EntryOnlyFromAnalysis(s) ==
    (cacheStorage[cacheKey(s)] = null /\ cacheStorage'[cacheKey(s)] # null)
        => \E r \in RunIds :
              /\ runs[r].action = "ANALYZE_SITE" /\ runs[r].siteUrl = s
              /\ runs[r].pc = "store" /\ runs'[r].pc = "done"
              /\ runs'[r].response.success

\* C26: CLEAR_CACHE with a site URL removes only that site's analysis entry
\* and leaves every other site's entry unchanged; without a site URL it
\* removes every key starting with 'analysis_' and leaves all other stored
\* keys (accessToken, userInfo) unchanged; after either, EXPORT_CSV for a
\* cleared site returns the 'No analysis data available' error until a new
\* analysis succeeds.
C26_ClearCache ==
    [][/\ \A r \in RunIds : ClearsOnlyNamed(r) /\ ExportNeedsEntry(r)
       /\ \A s \in Sites : EntryOnlyFromAnalysis(s)
      ]_vars

\* both sites were analyzed by the background run and the popup, one site's
\* entry was cleared by name and the other site's entry is still there
C26_Witness ==
    /\ runs["popup"].pc = "done"
    /\ runs["popup"].action = "CLEAR_CACHE"
    /\ runs["popup"].siteUrl # ""
    /\ runs["alarm"].pc = "done"
    /\ runs["alarm"].siteUrl = runs["popup"].siteUrl
    /\ runs["alarm"].response.success
    /\ cacheStorage[cacheKey(runs["popup"].siteUrl)] = null
    /\ \E s \in Sites : cacheStorage[cacheKey(s)] # null
    /\ cacheStorage[accessTokenKey] # null

(***************************************************************************)
(* SpecPopup: the popup, src/unnamed/part_000. analyzeSite is an async     *)
(* function: it sets currentSiteUrl when called and sets currentAnalysis   *)
(* after its awaits, so calls made before an earlier one returned are under *)
(* way together, each with its own siteUrl.                                *)
(***************************************************************************)
\* the most calls of analyzeSite while the popup is open
MaxCalls == 3

\* what getPagePerformanceComparison returns for each of the two sites
siteComparison(siteUrl) ==
    IF siteUrl = "sc-domain:a.example"
    THEN <<[page |-> <<"https://example.com/a">>, current |-> Snapshot(0, 52, 8),
            previous |-> Snapshot(50, 500, 10), isNew |-> FALSE]>>
    ELSE <<[page |-> <<"https://example.com/a">>, current |-> Snapshot(50, 500, 10),
            previous |-> Snapshot(50, 500, 10), isNew |-> FALSE]>>

\* the storage with the entry of one site in it, written at time 0
storageWith(siteUrl) ==
    [k \in StorageKeys |->
        IF k = cacheKey(siteUrl) THEN cacheEntry(0, siteComparison(siteUrl)) ELSE null]

\* what the service worker may answer to GET_CACHED_ANALYSIS for the site
cachedAnswers(siteUrl) ==
    {getCachedAnalysis(storageWith(siteUrl), siteUrl, 0),
     getCachedAnalysis([k \in StorageKeys |-> null], siteUrl, 0)}

\* what the service worker may answer to ANALYZE_SITE for the site
analyzeAnswers(siteUrl) ==
    {freshResponse(cacheEntry(0, siteComparison(siteUrl))),
     errorResponse("Not authenticated")}

\* currentAnalysis = { summary: response.summary, pages: response.pages }
analysisOfResponse(response) ==
    [summary |-> response.summary, pages |-> response.pages]

\* analyzeSite(siteUrl, forceRefresh) up to its first await
analyzeSiteCall(siteUrl, forceRefresh) ==
    [siteUrl |-> siteUrl, forceRefresh |-> forceRefresh,
     pc |-> IF forceRefresh THEN "awaitAnalyze" ELSE "awaitCached",
     error |-> null]

\* the popup after init() found the user signed in and loaded the sites
InitPopup ==
    /\ CoreIdle
    /\ VelIdle
    /\ CsvIdle
    /\ FetchIdle
    /\ ServiceIdle
    /\ pc = "popup"
    /\ currentSiteUrl = null
    /\ currentAnalysis = null
    /\ screen = "siteSelection"
    /\ calls = <<>>

\* click on a .site-item: analyzeSite(siteUrl)
ClickSite(siteUrl) ==
    /\ screen = "siteSelection"
    /\ Len(calls) < MaxCalls
    /\ currentSiteUrl' = siteUrl
    /\ screen' = "analysis"
    /\ calls' = Append(calls, analyzeSiteCall(siteUrl, FALSE))
    /\ UNCHANGED currentAnalysis
    /\ UNCHANGED <<diagVars, runVars, pc, velVars, csvVars, fetchVars,
                   cacheStorage, now, ticks, runs>>

\* click on refreshBtn: analyzeSite(currentSiteUrl, true)
ClickRefresh ==
    /\ screen = "analysis"
    /\ Len(calls) < MaxCalls
    /\ calls' = Append(calls, analyzeSiteCall(currentSiteUrl, TRUE))
    /\ UNCHANGED <<currentSiteUrl, currentAnalysis, screen>>
    /\ UNCHANGED <<diagVars, runVars, pc, velVars, csvVars, fetchVars,
                   cacheStorage, now, ticks, runs>>

\* click on backBtn: showScreen('siteSelection')
ClickBack ==
    /\ screen = "analysis"
    /\ screen' = "siteSelection"
    /\ UNCHANGED <<currentSiteUrl, currentAnalysis, calls>>
    /\ UNCHANGED <<diagVars, runVars, pc, velVars, csvVars, fetchVars,
                   cacheStorage, now, ticks, runs>>

\* the answer to GET_CACHED_ANALYSIS of call i arrives
CachedAnswer(i) ==
    /\ calls[i].pc = "awaitCached"
    /\ \E cached \in cachedAnswers(calls[i].siteUrl) :
          IF cached.success /\ cached.cached
          THEN /\ currentAnalysis' = analysisOfResponse(cached)
               /\ calls' = [calls EXCEPT ![i].pc = "done"]
          ELSE /\ calls' = [calls EXCEPT ![i].pc = "awaitAnalyze"]
               /\ UNCHANGED currentAnalysis
    /\ UNCHANGED <<currentSiteUrl, screen>>
    /\ UNCHANGED <<diagVars, runVars, pc, velVars, csvVars, fetchVars,
                   cacheStorage, now, ticks, runs>>

\* the answer to ANALYZE_SITE of call i arrives
AnalyzeAnswer(i) ==
    /\ calls[i].pc = "awaitAnalyze"
    /\ \E response \in analyzeAnswers(calls[i].siteUrl) :
          IF ~response.success
          THEN /\ calls' = [calls EXCEPT ![i].pc = "done",
                                         ![i].error = [message |-> response.error]]
               /\ UNCHANGED currentAnalysis
          ELSE /\ currentAnalysis' = analysisOfResponse(response)
               /\ calls' = [calls EXCEPT ![i].pc = "done"]
    /\ UNCHANGED <<currentSiteUrl, screen>>
    /\ UNCHANGED <<diagVars, runVars, pc, velVars, csvVars, fetchVars,
                   cacheStorage, now, ticks, runs>>

NextPopup ==
    \/ \E siteUrl \in Sites : ClickSite(siteUrl)
    \/ ClickRefresh
    \/ ClickBack
    \/ \E i \in 1..Len(calls) : CachedAnswer(i)
    \/ \E i \in 1..Len(calls) : AnalyzeAnswer(i)

SpecPopup == InitPopup /\ [][NextPopup]_vars

(***************************************************************************)
(* Claim about the popup                                                   *)
(***************************************************************************)
\* no call of analyzeSite is waiting for an answer
NoRequestInFlight == \A i \in 1..Len(calls) : calls[i].pc = "done"

\* the analysis of the site, as the service worker answers it
analysisOfSite(siteUrl) ==
    analysisOfResponse(freshResponse(cacheEntry(0, siteComparison(siteUrl))))

\* C28: whenever no analysis request is in flight, currentAnalysis is the
\* result for currentSiteUrl, in whatever order the answers to overlapping
\* calls of analyzeSite arrive.
C28_AnalysisOfSelectedSite ==
    (NoRequestInFlight /\ currentAnalysis # null)
        => currentAnalysis = analysisOfSite(currentSiteUrl)

\* the same, for the calls that all succeeded
C28_OverlapOnly ==
    (NoRequestInFlight /\ currentAnalysis # null
        /\ \A i \in 1..Len(calls) : calls[i].error = null)
        => currentAnalysis = analysisOfSite(currentSiteUrl)

====
